---- MODULE Spec2Model ----
(***************************************************************************)
(* Model of the Affitti API:                                               *)
(*   app/middlewares/rate_limit.py   fixed-window rate limiter             *)
(*   app/main.py                     middleware and exception-handler stack*)
(*   app/routers/auth.py             register, login, refresh, me, logout, *)
(*                                   forgot, reset, cookies                *)
(*   app/core/security.py            token resolver                        *)
(*   app/routers/locatari.py         locatari and their reviews            *)
(*   app/routers/utenti.py           profiles and the approval workflow    *)
(* The specifications share the variables: SpecRL runs the rate limiter   *)
(* one request at a time, SpecWin logs what it forwards per second,        *)
(* SpecLoop runs its coroutines on one event loop, SpecAuth and SpecConc   *)
(* run the auth router against a stub identity provider, SpecEdge runs the *)
(* limiter in front of the auth router, SpecResolver the token resolver,   *)
(* SpecRegister the registration, SpecLocatari, SpecRecensioni and         *)
(* SpecUtenti the resource routes against a stub data store.               *)
(***************************************************************************)
EXTENDS Integers, Sequences, FiniteSets, TLC

VARIABLES
    now,        \* time.time(), in whole seconds
    buckets,    \* _BUCKETS: (ip, path) -> [reset, count]
    rlLast,     \* what the last request through the middleware stack got
    task,       \* per coroutine of rate_limit_middleware: where it is
                \* suspended, and its local variables
    tally,      \* per bucket key: requests arrived, requests forwarded
    fwdlog,     \* per bucket key and second: requests forwarded then
    cfg,        \* the environment the process was started with
    idp,        \* the identity provider (stub)
    jar,        \* the client's cookie jar
    slot,       \* per worker thread: the request it is serving
    last,       \* the request answered last, with its response (until the
                \* next request comes in)
    hist,       \* history: did requests overlap, was a provider answer lost
    db,         \* the provider's auth users (accounts) and the data store:
                \* the tables utenti, locatari and recensioni_locatari
    res         \* the request to a resource route answered last, with its
                \* response

vars ==
    <<now, buckets, rlLast, task, tally, fwdlog, cfg, idp, jar, slot, last, hist,
      db, res>>
apiVars == <<db, res>>
rlVars == <<now, buckets, rlLast, task, tally, fwdlog>>
authVars == <<cfg, idp, jar, slot, last, hist>>

\* Python's None
None == "<None>"

\* Python truthiness of an Optional[str]
Truthy(s) == s # None /\ s # ""

\* Python's `a or b`
PyOr(a, b) == IF Truthy(a) THEN a ELSE b

(***************************************************************************)
(* Bounds of the model                                                     *)
(***************************************************************************)
MaxTime == 3        \* the clock stops here
MaxOver == 1        \* requests counted beyond MAX_REQ in one window
MaxTok == 2         \* token pairs the identity provider issues

(***************************************************************************)
(* app/middlewares/rate_limit.py                                           *)
(***************************************************************************)
\* RL_WINDOW_SEC and RL_MAX_REQ as the deployment sets them (small values of
\* the environment variables; the defaults are 60 and 10)
WINDOW_SEC == 2
MAX_REQ == 2

\* a path is a sequence of chunks of characters, so that str.startswith is
\* a prefix test on sequences: "/auth/login/x" = <<"/auth", "/login", "/x">>
PROTECTED_PATHS ==
    { <<"/auth", "/login">>, <<"/auth", "/register">>, <<"/auth", "/forgot">> }

startswith(path, p) ==
    /\ Len(p) <= Len(path)
    /\ SubSeq(path, 1, Len(p)) = p

\* the requests of the model: request.client (a peer address, or None) and
\* request.url.path
Requests ==
    { [client |-> "10.0.0.1", path |-> <<"/auth", "/login">>],
      [client |-> "10.0.0.1", path |-> <<"/auth", "/login", "/x">>],
      [client |-> None, path |-> <<"/auth", "/login">>],
      [client |-> "10.0.0.1", path |-> <<"/health">>] }

\* line 21: ip = request.client.host if request.client else "unknown"
ClientIp(client) == IF client = None THEN "unknown" ELSE client

\* line 18: any(path.startswith(p) for p in PROTECTED_PATHS)
IsProtectedAlways(path) == TRUE

IsProtected(path) == \E p \in PROTECTED_PATHS : startswith(path, p)

\* line 22: key = (ip, path)
BucketKeyByPrefix(ip, path) ==
    IF IsProtected(path)
    THEN <<ip, CHOOSE p \in PROTECTED_PATHS : startswith(path, p)>>
    ELSE <<ip, path>>

BucketKey(ip, path) == <<ip, path>>

\* line 24: _BUCKETS.get(key, (now + WINDOW_SEC, 0))
BucketGet(key, t) ==
    IF key \in DOMAIN buckets
    THEN buckets[key]
    ELSE [reset |-> t + WINDOW_SEC, count |-> 0]

\* lines 26-27: if now > reset: reset, count = now + WINDOW_SEC, 0
WindowNoRestart(b, t) ==
    IF t > b.reset THEN [reset |-> t + WINDOW_SEC, count |-> b.count] ELSE b

WindowAtBoundary(b, t) ==
    IF t >= b.reset THEN [reset |-> t + WINDOW_SEC, count |-> 0] ELSE b

WindowOf(b, t) ==
    IF t > b.reset THEN [reset |-> t + WINDOW_SEC, count |-> 0] ELSE b

\* line 29: count += 1
CountedAndExtended(b) == [reset |-> b.reset + 1, count |-> b.count + 1]

Counted(b) == [b EXCEPT !.count = @ + 1]

\* line 30: _BUCKETS[key] = (reset, count)
BucketPut(key, b) ==
    [k \in DOMAIN buckets \cup {key} |-> IF k = key THEN b ELSE buckets[k]]

(***************************************************************************)
(* app/main.py: what the client receives.  A handler or middleware either  *)
(* returns a response or raises; an outcome is                             *)
(*   [kind |-> "response" | "raise" | "error", status, code]               *)
(* where "raise" is an HTTPException, "error" any other exception, and     *)
(* code is the "code" field of the JSON body (0: no such field).           *)
(***************************************************************************)
Returned(status) == [kind |-> "response", status |-> status, code |-> 0]
Raised(status) == [kind |-> "raise", status |-> status, code |-> 0]
\* an exception of requests that no except clause of the handler catches
Uncaught == [kind |-> "error", status |-> 0, code |-> 0]

\* main.py 85-90: @app.exception_handler(StarHTTP)
http_exception_handler(exc) ==
    [kind |-> "response", status |-> exc.status, code |-> exc.status]

\* a request body or parameter that fails the schema of the route
Invalid == [kind |-> "invalid", status |-> 422, code |-> 0]

\* main.py 92-97: @app.exception_handler(RequestValidationError)
validation_exception_handler(exc) ==
    [kind |-> "response", status |-> 422, code |-> 422]

\* main.py 99-105: @app.exception_handler(Exception)
generic_exception_handler(exc) ==
    [kind |-> "response", status |-> 500, code |-> 500]

\* The handler registered for StarHTTP runs in the exception middleware,
\* which wraps the router only: it sees what the route handlers raise.
ExceptionMiddleware(outcome) ==
    IF outcome.kind = "raise" THEN http_exception_handler(outcome)
    ELSE IF outcome.kind = "invalid" THEN validation_exception_handler(outcome)
    ELSE outcome

\* The handler registered for Exception runs in the server-error middleware,
\* the outermost layer: it sees what any layer below it lets escape.
ServerErrorMiddleware(outcome) ==
    IF outcome.kind # "response" THEN generic_exception_handler(outcome) ELSE outcome

\* rate_limit.py 32-35: raise HTTPException(429), or await call_next(request)
RateLimitOffByOne(b, inner) ==
    IF b.count > MAX_REQ + 1 THEN Raised(429) ELSE inner

RateLimitOutcome(b, inner) ==
    IF b.count > MAX_REQ THEN Raised(429) ELSE inner

\* main.py 62-64: app.middleware("http")(rate_limit_middleware) puts the
\* limiter among the user middlewares, between the two layers above
AppStack(limited, b, handler) ==
    ServerErrorMiddleware(
        IF limited
        THEN RateLimitOutcome(b, ExceptionMiddleware(handler))
        ELSE ExceptionMiddleware(handler))

\* what a route handler below the limiter may do
HandlerOutcomes == { Returned(200), Raised(401) }

\* line 33: int(reset - now)
RetryAfterShort(b, t) == b.reset - t - 1

RetryAfter(b, t) == b.reset - t

NoRequest ==
    [ip |-> None, path |-> <<>>, prev |-> 0, reset |-> 0, count |-> 0,
     forwarded |-> FALSE, annotated |-> FALSE, status |-> 0, code |-> 0,
     hint |-> 0, at |-> 0]

\* rate_limit_middleware, lines 16-39, and the delivery of its outcome;
\* rlLast.prev is the count the request found in its bucket (0: no bucket),
\* rlLast.annotated tells whether lines 36-38 set the X-RateLimit headers,
\* rlLast.hint is the number in the detail of the HTTPException of line 33
\* and rlLast.at the time (line 23) of the request that raised it
rate_limit_middleware(client, path, handler) ==
    LET ip == ClientIp(client)
        key == BucketKey(ip, path)
        b0 == BucketGet(key, now)
        b1 == Counted(WindowOf(b0, now))
        limited == IsProtected(path)
        out == AppStack(limited, b1, handler)
        fwd == ~limited \/ RateLimitOutcome(b1, Returned(200)) # Raised(429)
    IN  /\ limited => b1.count <= MAX_REQ + MaxOver
        /\ buckets' = IF limited THEN BucketPut(key, b1) ELSE buckets
        /\ rlLast' =
               [ip |-> ip, path |-> path,
                prev |-> IF limited /\ key \in DOMAIN buckets THEN b0.count ELSE 0,
                reset |-> IF limited THEN b1.reset ELSE 0,
                count |-> IF limited THEN b1.count ELSE 0,
                forwarded |-> fwd,
                annotated |-> limited /\ fwd,
                status |-> out.status, code |-> out.code,
                hint |-> IF limited /\ ~fwd THEN RetryAfter(b1, now) ELSE 0,
                at |-> IF limited /\ ~fwd THEN now ELSE 0]
        /\ UNCHANGED <<now, task, tally, authVars, apiVars>>

\* time passes
Tick ==
    /\ now < MaxTime
    /\ now' = now + 1
    /\ UNCHANGED <<buckets, rlLast, task, tally, fwdlog, authVars, apiVars>>

(***************************************************************************)
(* rate_limit_middleware as a coroutine.  The function is an async def     *)
(* that main.py attaches with app.middleware("http"): its calls run on the *)
(* one event loop of the process, and a call keeps the loop from its start *)
(* or resumption until its next await.  A task is                          *)
(*   [pc |-> "idle" | "lookup" | "call_next", ip, path, reset, count]      *)
(* with the coroutine's local variables; reset and count are those of      *)
(* line 24 at "lookup" and those of lines 26-29 at "call_next".            *)
(***************************************************************************)
\* the places where the coroutine awaits: call_next (lines 19 and 35) only;
\* the dictionary lookup of line 24 is no await
AwaitsBucketLookup == { "call_next", "lookup" }

Awaits == { "call_next" }

IdleTask == [pc |-> "idle", ip |-> None, path |-> <<>>, reset |-> 0, count |-> 0]

\* the bucket keys of the requests of the model
Keys ==
    { BucketKey(ClientIp(r.client), r.path) : r \in { q \in Requests : IsProtected(q.path) } }

NoTally == [k \in Keys |-> [arrived |-> 0, forwarded |-> 0]]

\* the requests the limiter forwarded, per key and per second of the clock
NoLog == [k \in Keys |-> [t \in 0..MaxTime |-> 0]]

\* the log after the request that rlLast describes, forwarded at time t
Logged(r, t) ==
    IF r.count > 0 /\ r.forwarded
    THEN [fwdlog EXCEPT ![BucketKey(r.ip, r.path)][t] = @ + 1]
    ELSE fwdlog

\* lines 26-35, run by the coroutine k from its local reset and count: the
\* bucket is written, then the coroutine raises or awaits call_next
CountAndCheck(k) ==
    LET key == BucketKey(k.ip, k.path)
        b1 == Counted(WindowOf([reset |-> k.reset, count |-> k.count], now))
        raises == RateLimitOutcome(b1, Returned(200)) = Raised(429)
    IN  [buckets |-> BucketPut(key, b1),
         task |-> IF raises THEN IdleTask
                  ELSE [k EXCEPT !.pc = "call_next", !.reset = b1.reset,
                                 !.count = b1.count],
         forwarded |-> IF raises THEN 0 ELSE 1]

\* a request arrives: lines 16-24, and on to the next await
Arrive(t, client, path) ==
    /\ task[t].pc = "idle"
    /\ LET ip == ClientIp(client)
           key == BucketKey(ip, path)
           b0 == BucketGet(key, now)
           k0 == [pc |-> "lookup", ip |-> ip, path |-> path,
                  reset |-> b0.reset, count |-> b0.count]
           r == CountAndCheck(k0)
       IN  IF ~IsProtected(path)
           THEN /\ task' = [task EXCEPT ![t] =
                       [IdleTask EXCEPT !.pc = "call_next", !.ip = ip, !.path = path]]
                /\ UNCHANGED <<buckets, tally>>
           ELSE /\ tally[key].arrived < MAX_REQ + MaxOver
                /\ IF "lookup" \in Awaits
                   THEN /\ task' = [task EXCEPT ![t] = k0]
                        /\ tally' = [tally EXCEPT ![key].arrived = @ + 1]
                        /\ buckets' = buckets
                   ELSE /\ task' = [task EXCEPT ![t] = r.task]
                        /\ tally' = [tally EXCEPT ![key].arrived = @ + 1,
                                                  ![key].forwarded = @ + r.forwarded]
                        /\ buckets' = r.buckets
    /\ UNCHANGED <<now, rlLast, fwdlog, authVars, apiVars>>

\* the event loop resumes a suspended coroutine: lines 26-35 after a
\* lookup, lines 36-39 after call_next
Resume(t) ==
    /\ task[t].pc # "idle"
    /\ IF task[t].pc = "lookup"
       THEN LET r == CountAndCheck(task[t])
                key == BucketKey(task[t].ip, task[t].path)
            IN  /\ task' = [task EXCEPT ![t] = r.task]
                /\ tally' = [tally EXCEPT ![key].forwarded = @ + r.forwarded]
                /\ buckets' = r.buckets
       ELSE /\ task' = [task EXCEPT ![t] = IdleTask]
            /\ UNCHANGED <<buckets, tally>>
    /\ UNCHANGED <<now, rlLast, fwdlog, authVars, apiVars>>

(***************************************************************************)
(* app/routers/auth.py: configuration                                      *)
(***************************************************************************)
REFRESH_COOKIE_NAME == "refresh_token"     \* line 37
COOKIE_PATH == "/auth"                     \* line 41
REFRESH_MAX_AGE == 604800                  \* line 42: 60 * 60 * 24 * 7
\* app/core/security.py line 20; no line of auth.py names this cookie
ACCESS_COOKIE_NAME == "access_token"

\* the environments a process may be started with
Envs == { "development", "production" }                  \* ENV
SameSites == { "lax", "none", "None" }                   \* COOKIE_SAMESITE
Domains == { None, ".example.it" }                       \* COOKIE_DOMAIN

Configs ==
    [ENV : Envs, COOKIE_SAMESITE : SameSites, COOKIE_SECURE : BOOLEAN,
     COOKIE_DOMAIN : Domains]

\* str.lower() on the strings of the model
lower(s) ==
    CASE s = "None" -> "none"
      [] s = "Bearer" -> "bearer"
      [] s = "BEARER" -> "bearer"
      [] s = "Basic" -> "basic"
      [] OTHER -> s

(***************************************************************************)
(* Cookie instructions of a response (Set-Cookie headers)                  *)
(***************************************************************************)
\* lines 72-86
SetRefreshCookieCaseSensitive(c, refresh_token) ==
    LET samesite == c.COOKIE_SAMESITE
        secure == c.COOKIE_SECURE \/ (samesite = "none")
    IN  [op |-> "set", key |-> REFRESH_COOKIE_NAME, value |-> refresh_token,
         httponly |-> TRUE, secure |-> secure, samesite |-> samesite,
         domain |-> c.COOKIE_DOMAIN, path |-> COOKIE_PATH,
         max_age |-> REFRESH_MAX_AGE]

_set_refresh_cookie(c, refresh_token) ==
    LET samesite == c.COOKIE_SAMESITE
        secure == c.COOKIE_SECURE \/ (lower(samesite) = "none")
    IN  [op |-> "set", key |-> REFRESH_COOKIE_NAME, value |-> refresh_token,
         httponly |-> TRUE, secure |-> secure, samesite |-> samesite,
         domain |-> c.COOKIE_DOMAIN, path |-> COOKIE_PATH,
         max_age |-> REFRESH_MAX_AGE]

\* lines 88-93: response.delete_cookie(key, domain, path) writes a Set-Cookie
\* with an empty value and max-age 0; the attributes the call does not pass
\* keep the framework's defaults
ClearRefreshCookieDefaultPath(c) ==
    [op |-> "delete", key |-> REFRESH_COOKIE_NAME, value |-> "",
     httponly |-> FALSE, secure |-> FALSE, samesite |-> "lax",
     domain |-> c.COOKIE_DOMAIN, path |-> "/", max_age |-> 0]

ClearRefreshCookieNoDomain(c) ==
    [op |-> "delete", key |-> REFRESH_COOKIE_NAME, value |-> "",
     httponly |-> FALSE, secure |-> FALSE, samesite |-> "lax",
     domain |-> None, path |-> COOKIE_PATH, max_age |-> 0]

_clear_refresh_cookie(c) ==
    [op |-> "delete", key |-> REFRESH_COOKIE_NAME, value |-> "",
     httponly |-> FALSE, secure |-> FALSE, samesite |-> "lax",
     domain |-> c.COOKIE_DOMAIN, path |-> COOKIE_PATH, max_age |-> 0]

(***************************************************************************)
(* The identity provider, as a stub: one session, whose refresh token is   *)
(* replaced by every token pair issued for it.                             *)
(*   idp = [next, current, used, rotates]                                  *)
(* next: index of the next token pair; current: the refresh token the      *)
(* provider accepts; used: refresh tokens a refresh grant has consumed.    *)
(***************************************************************************)
AccessTok(n) == "a" \o ToString(n)
RefreshTok(n) == "r" \o ToString(n)
RefreshToks == { RefreshTok(n) : n \in 1..MaxTok }
AccessToks == { AccessTok(n) : n \in 1..MaxTok }

\* an answer of the provider, or the exception requests raised instead
Upstream(status, access, refresh) ==
    [exc |-> FALSE, status |-> status, access |-> access, refresh |-> refresh]
RequestException == [exc |-> TRUE, status |-> 0, access |-> None, refresh |-> None]
NoUpstream == [exc |-> FALSE, status |-> 0, access |-> None, refresh |-> None]

\* the status of the provider's answer to a password grant: granted,
\* refused, or failing inside the provider
PasswordAnswers == { 200, 400, 500 }

\* POST /auth/v1/token?grant_type=password
PasswordGrant(answer) ==
    IF answer = 200
    THEN [idp |-> [idp EXCEPT !.next = @ + 1, !.current = RefreshTok(idp.next)],
          up |-> Upstream(200, AccessTok(idp.next), RefreshTok(idp.next))]
    ELSE [idp |-> idp, up |-> Upstream(answer, None, None)]

\* POST /auth/v1/token?grant_type=refresh_token; keep: what a provider that
\* does not rotate puts in the refresh_token field of its answer
RefreshGrant(token, keep) ==
    IF token # idp.current
    THEN [idp |-> idp, up |-> Upstream(400, None, None)]
    ELSE IF idp.rotates
    THEN [idp |-> [idp EXCEPT !.next = @ + 1, !.current = RefreshTok(idp.next),
                              !.used = @ \cup {token}],
          up |-> Upstream(200, AccessTok(idp.next), RefreshTok(idp.next))]
    ELSE [idp |-> [idp EXCEPT !.next = @ + 1],
          up |-> Upstream(200, AccessTok(idp.next), keep)]

\* GET /auth/v1/user
UserEndpoint(token) ==
    IF \E n \in 1..(idp.next - 1) : token = AccessTok(n)
    THEN Upstream(200, None, None)
    ELSE Upstream(401, None, None)

\* the network between the backend and the provider: the call goes through,
\* fails before the provider sees it, or fails after the provider acted
Nets == { "ok", "unreachable", "lost" }

\* what requests.post/get gives the handler for a call that would change
\* the provider to r.idp and answer r.up
Call(r, net) ==
    [idp |-> IF net = "unreachable" THEN idp ELSE r.idp,
     up |-> IF net = "ok" THEN r.up ELSE RequestException]

(***************************************************************************)
(* The client's cookie jar: cookies are told apart by (key, domain, path)  *)
(***************************************************************************)
SameCookie(c, d) == c.key = d.key /\ c.domain = d.domain /\ c.path = d.path

\* the jar after the client applies the instructions of one response (a
\* response carries at most one instruction per cookie)
JarAfter(j, instructions) ==
    LET kept == { c \in j : \A i \in instructions : ~SameCookie(c, i) }
        added == { [key |-> i.key, domain |-> i.domain, path |-> i.path,
                    value |-> i.value] : i \in { x \in instructions : x.op = "set" } }
    IN  kept \cup added

\* request.cookies.get(key) for a request carrying the jar
CookieGet(j, key) ==
    IF \E c \in j : c.key = key
    THEN (CHOOSE c \in j : c.key = key).value
    ELSE None

(***************************************************************************)
(* app/routers/auth.py: the handlers.  A handler that calls the provider   *)
(* runs in a worker thread and blocks in the call, so it is two steps:     *)
(* ...Call up to the provider's action, ...Return from there to the        *)
(* response.  A reply is what the handler returns or raises, the cookie    *)
(* instructions on its response and the token pair in its body.            *)
(***************************************************************************)
Reply(outcome, cookies, access, refresh) ==
    [outcome |-> outcome, cookies |-> cookies, access_token |-> access,
     refresh_token |-> refresh]

\* an exception handler builds a new response: the cookies set on the
\* injected response object are sent only when the handler returns
Fail(status) == Reply(Raised(status), {}, None, None)

\* a worker's request: its inputs (body field, refresh cookie, Authorization
\* header), the token sent to the provider, whether that token had been
\* consumed by a refresh before, and the provider's answer
IdleSlot ==
    [pc |-> "idle", op |-> "none", body |-> None, cookie |-> None,
     header |-> <<>>, sent |-> None, called |-> FALSE, stale |-> FALSE,
     up |-> NoUpstream]

NoResponse ==
    [op |-> "none", body |-> None, cookie |-> None, header |-> <<>>,
     sent |-> None, called |-> FALSE, stale |-> FALSE, upstream |-> 0,
     status |-> 0, code |-> 0, cookies |-> {}, access_token |-> None,
     refresh_token |-> None]

\* the request s is answered: the reply goes through the stack of main.py
\* (the limiter lets the requests of this specification through)
Answered(s, reply) ==
    LET out == AppStack(FALSE, [reset |-> 0, count |-> 0], reply.outcome)
    IN  [op |-> s.op, body |-> s.body, cookie |-> s.cookie, header |-> s.header,
         sent |-> s.sent, called |-> s.called, stale |-> s.stale,
         upstream |-> s.up.status,
         status |-> out.status, code |-> out.code, cookies |-> reply.cookies,
         access_token |-> reply.access_token,
         refresh_token |-> reply.refresh_token]

\* history: a request starts while another one is being served; the answer
\* to a call that changed the provider's tokens is lost
Started(w, net, changed) ==
    [overlap |-> hist.overlap \/ (\E v \in DOMAIN slot \ {w} : slot[v].pc = "called"),
     lost |-> hist.lost \/ (net = "lost" /\ changed)]

\* login, lines 218-250
LoginTreatsErrorAsDenied(c, up) ==
    IF up.exc \/ up.status # 200 THEN Fail(401)
    ELSE Reply(Returned(200), {_set_refresh_cookie(c, up.refresh)},
               up.access, up.refresh)

login(c, up) ==
    IF up.exc THEN Fail(502)
    ELSE IF up.status # 200 THEN Fail(401)
    ELSE Reply(Returned(200), {_set_refresh_cookie(c, up.refresh)},
               up.access, up.refresh)

\* login, lines 216-225: up to the provider's action
LoginBegin(w, answer, net) ==
    /\ slot[w].pc = "idle"
    /\ LET r == Call(PasswordGrant(answer), net)
       IN  /\ r.idp.next <= MaxTok + 1
           /\ idp' = r.idp
           /\ slot' = [slot EXCEPT ![w] =
                  [IdleSlot EXCEPT !.pc = "called", !.op = "login",
                                   !.called = TRUE, !.up = r.up]]
           /\ hist' = Started(w, net, r.idp # idp)
    /\ last' = NoResponse
    /\ UNCHANGED <<cfg, jar>>

LoginCall(w, answer, net) ==
    /\ LoginBegin(w, answer, net)
    /\ UNCHANGED <<rlVars, apiVars>>

LoginReturn(w) ==
    /\ slot[w].pc = "called" /\ slot[w].op = "login"
    /\ LET reply == login(cfg, slot[w].up)
       IN  /\ last' = Answered(slot[w], reply)
           /\ jar' = JarAfter(jar, reply.cookies)
    /\ slot' = [slot EXCEPT ![w] = IdleSlot]
    /\ UNCHANGED <<cfg, idp, hist, rlVars, apiVars>>

\* refresh, line 263: refresh_token or request.cookies.get(REFRESH_COOKIE_NAME)
RefreshTokenCookieFirst(body, cookie) == PyOr(cookie, body)

RefreshTokenOf(body, cookie) == PyOr(body, cookie)

\* refresh, lines 274-297
RefreshKeepsCookie(c, up) ==
    IF up.exc THEN Fail(502)
    ELSE IF up.status # 200 THEN Fail(401)
    ELSE Reply(Returned(200), {}, up.access, up.refresh)

refresh(c, up) ==
    IF up.exc THEN Fail(502)
    ELSE IF up.status # 200 THEN Fail(401)
    ELSE Reply(Returned(200),
               IF Truthy(up.refresh) THEN {_set_refresh_cookie(c, up.refresh)} ELSE {},
               up.access, up.refresh)

\* the refresh cookie a request carries: the jar's, or an empty one
CookieChoices == { CookieGet(jar, REFRESH_COOKIE_NAME), "" }

\* the refresh_token field of a request body: absent, empty, or a token
BodyChoices == { None, "" } \cup RefreshToks

\* the refresh_token field in the answer of a provider that does not rotate:
\* absent or empty
KeepChoices == IF idp.rotates THEN {None} ELSE {None, ""}

\* refresh, lines 263-273: without a token the handler raises at once
RefreshCall(w, body, cookie, net, keep) ==
    /\ slot[w].pc = "idle"
    /\ LET token == RefreshTokenOf(body, cookie)
           s0 == [IdleSlot EXCEPT !.op = "refresh", !.body = body, !.cookie = cookie]
       IN  IF ~Truthy(token)
           THEN /\ last' = Answered(s0, Fail(401))
                /\ hist' = Started(w, "ok", FALSE)
                /\ UNCHANGED <<idp, slot>>
           ELSE /\ LET r == Call(RefreshGrant(token, keep), net)
                   IN  /\ r.idp.next <= MaxTok + 1
                       /\ idp' = r.idp
                       /\ slot' = [slot EXCEPT ![w] =
                              [s0 EXCEPT !.pc = "called", !.sent = token,
                                         !.called = TRUE,
                                         !.stale = token \in idp.used,
                                         !.up = r.up]]
                       /\ hist' = Started(w, net, r.idp # idp)
                /\ last' = NoResponse
    /\ UNCHANGED <<cfg, jar, rlVars, apiVars>>

RefreshReturn(w) ==
    /\ slot[w].pc = "called" /\ slot[w].op = "refresh"
    /\ LET reply == refresh(cfg, slot[w].up)
       IN  /\ last' = Answered(slot[w], reply)
           /\ jar' = JarAfter(jar, reply.cookies)
    /\ slot' = [slot EXCEPT ![w] = IdleSlot]
    /\ UNCHANGED <<cfg, idp, hist, rlVars, apiVars>>

\* an Authorization header value is a sequence of chunks: "Bearer a1" is
\* <<"Bearer", " ", "a1">>, the absent header (default "") is <<>>
Headers ==
    { <<>>, <<"Basic", " ", "a1">>, <<"Bearer", " ", "a1">>,
      <<"bearer", " ", "a1">>, <<"Bearer", " ", "junk">> }

LowerAll(h) == [i \in DOMAIN h |-> lower(h[i])]

\* me, line 301: authorization.lower().startswith("bearer ")
HasBearerAnyScheme(h) == Len(h) >= 3

HasBearer(h) == startswith(LowerAll(h), <<"bearer", " ">>)

\* me, line 303: authorization.split(" ", 1)[1]
BearerToken(h) == h[3]

\* me, lines 304-314
me(up) ==
    IF up.exc THEN Fail(502)
    ELSE IF up.status # 200 THEN Fail(401)
    ELSE Reply(Returned(200), {}, None, None)

\* me, lines 300-309: the handler reads the Authorization header only
MeCall(w, header, net) ==
    /\ slot[w].pc = "idle"
    /\ LET s0 == [IdleSlot EXCEPT !.op = "me", !.header = header,
                                  !.cookie = CookieGet(jar, REFRESH_COOKIE_NAME)]
       IN  IF ~HasBearer(header)
           THEN /\ last' = Answered(s0, Fail(401))
                /\ hist' = Started(w, "ok", FALSE)
                /\ slot' = slot
           ELSE /\ slot' = [slot EXCEPT ![w] =
                       [s0 EXCEPT !.pc = "called", !.sent = BearerToken(header),
                                  !.called = TRUE,
                                  !.up = IF net = "ok"
                                         THEN UserEndpoint(BearerToken(header))
                                         ELSE RequestException]]
                /\ hist' = Started(w, net, FALSE)
                /\ last' = NoResponse
    /\ UNCHANGED <<cfg, idp, jar, rlVars, apiVars>>

MeReturn(w) ==
    /\ slot[w].pc = "called" /\ slot[w].op = "me"
    /\ last' = Answered(slot[w], me(slot[w].up))
    /\ slot' = [slot EXCEPT ![w] = IdleSlot]
    /\ UNCHANGED <<cfg, idp, jar, hist, rlVars, apiVars>>

\* logout, lines 316-319
logout(c) == Reply(Returned(200), {_clear_refresh_cookie(c)}, None, None)

Logout(w) ==
    /\ slot[w].pc = "idle"
    /\ LET s0 == [IdleSlot EXCEPT !.op = "logout",
                                  !.cookie = CookieGet(jar, REFRESH_COOKIE_NAME)]
           reply == logout(cfg)
       IN  /\ last' = Answered(s0, reply)
           /\ jar' = JarAfter(jar, reply.cookies)
    /\ hist' = Started(w, "ok", FALSE)
    /\ UNCHANGED <<cfg, idp, slot, rlVars, apiVars>>

\* POST /auth/v1/recover and PUT /auth/v1/user: the status of the answer
RecoverAnswers == { 200, 204, 400 }
UpdateAnswers == { 200, 401 }

\* forgot_password, lines 322-337: requests.post outside any try block
forgot_password(up) ==
    IF up.exc THEN Reply(Uncaught, {}, None, None)
    ELSE IF up.status \notin {200, 204} THEN Fail(400)
    ELSE Reply(Returned(200), {}, None, None)

\* forgot_password, lines 323-330: up to the provider's action
ForgotBegin(w, answer, net) ==
    /\ slot[w].pc = "idle"
    /\ slot' = [slot EXCEPT ![w] =
           [IdleSlot EXCEPT !.pc = "called", !.op = "forgot", !.called = TRUE,
                            !.up = IF net = "ok"
                                   THEN Upstream(answer, None, None)
                                   ELSE RequestException]]
    /\ hist' = Started(w, net, FALSE)
    /\ last' = NoResponse
    /\ UNCHANGED <<cfg, idp, jar>>

ForgotCall(w, answer, net) ==
    /\ ForgotBegin(w, answer, net)
    /\ UNCHANGED <<rlVars, apiVars>>

ForgotReturn(w) ==
    /\ slot[w].pc = "called" /\ slot[w].op = "forgot"
    /\ last' = Answered(slot[w], forgot_password(slot[w].up))
    /\ slot' = [slot EXCEPT ![w] = IdleSlot]
    /\ UNCHANGED <<cfg, idp, jar, hist, rlVars, apiVars>>

\* reset_password, lines 339-357: requests.put outside any try block
reset_password(up) ==
    IF up.exc THEN Reply(Uncaught, {}, None, None)
    ELSE IF up.status # 200 THEN Fail(400)
    ELSE Reply(Returned(200), {}, None, None)

\* lines 341-343: without a Bearer header the handler raises at once
ResetCall(w, header, answer, net) ==
    /\ slot[w].pc = "idle"
    /\ LET s0 == [IdleSlot EXCEPT !.op = "reset", !.header = header]
       IN  IF ~HasBearer(header)
           THEN /\ last' = Answered(s0, Fail(401))
                /\ hist' = Started(w, "ok", FALSE)
                /\ slot' = slot
           ELSE /\ slot' = [slot EXCEPT ![w] =
                       [s0 EXCEPT !.pc = "called", !.sent = BearerToken(header),
                                  !.called = TRUE,
                                  !.up = IF net = "ok"
                                         THEN Upstream(answer, None, None)
                                         ELSE RequestException]]
                /\ hist' = Started(w, net, FALSE)
                /\ last' = NoResponse
    /\ UNCHANGED <<cfg, idp, jar, rlVars, apiVars>>

ResetReturn(w) ==
    /\ slot[w].pc = "called" /\ slot[w].op = "reset"
    /\ last' = Answered(slot[w], reset_password(slot[w].up))
    /\ slot' = [slot EXCEPT ![w] = IdleSlot]
    /\ UNCHANGED <<cfg, idp, jar, hist, rlVars, apiVars>>

(***************************************************************************)
(* app/main.py 62-64, 107-110: the limiter in front of the auth router.    *)
(* A request to a protected route runs lines 21-33 of the middleware; the  *)
(* route handler starts only where the middleware reaches call_next.       *)
(***************************************************************************)
\* the answer to a request the limiter rejected: no handler ran
Rejected(op, b) ==
    LET out == AppStack(TRUE, b, Returned(200))
    IN  [NoResponse EXCEPT !.op = op, !.status = out.status, !.code = out.code]

\* lines 21-35 for a request of client to path; rlLast.status is 0 while
\* the forwarded request is with its handler
Limit(client, path) ==
    LET ip == ClientIp(client)
        key == BucketKey(ip, path)
        b0 == BucketGet(key, now)
        b1 == Counted(WindowOf(b0, now))
        raises == RateLimitOutcome(b1, Returned(200)) = Raised(429)
        out == AppStack(TRUE, b1, Returned(200))
    IN  [raises |-> raises, bucket |-> b1, buckets |-> BucketPut(key, b1),
         rlLast |-> [ip |-> ip, path |-> path,
                     prev |-> IF key \in DOMAIN buckets THEN b0.count ELSE 0,
                     reset |-> b1.reset, count |-> b1.count,
                     forwarded |-> ~raises, annotated |-> FALSE,
                     status |-> IF raises THEN out.status ELSE 0,
                     code |-> IF raises THEN out.code ELSE 0,
                     hint |-> IF raises THEN RetryAfter(b1, now) ELSE 0,
                     at |-> IF raises THEN now ELSE 0]]

\* POST /auth/login through the limiter
GuardedLogin(w, client, answer, net) ==
    LET m == Limit(client, <<"/auth", "/login">>)
    IN  /\ slot[w].pc = "idle"
        /\ m.bucket.count <= MAX_REQ + MaxOver
        /\ buckets' = m.buckets
        /\ rlLast' = m.rlLast
        /\ IF m.raises
           THEN /\ last' = Rejected("login", m.bucket)
                /\ UNCHANGED <<cfg, idp, jar, slot, hist>>
           ELSE LoginBegin(w, answer, net)
        /\ UNCHANGED <<now, task, tally, fwdlog, apiVars>>

\* POST /auth/forgot through the limiter
GuardedForgot(w, client, answer, net) ==
    LET m == Limit(client, <<"/auth", "/forgot">>)
    IN  /\ slot[w].pc = "idle"
        /\ m.bucket.count <= MAX_REQ + MaxOver
        /\ buckets' = m.buckets
        /\ rlLast' = m.rlLast
        /\ IF m.raises
           THEN /\ last' = Rejected("forgot", m.bucket)
                /\ UNCHANGED <<cfg, idp, jar, slot, hist>>
           ELSE ForgotBegin(w, answer, net)
        /\ UNCHANGED <<now, task, tally, fwdlog, apiVars>>

\* the peers of the requests of the model
Clients == { r.client : r \in Requests }

\* the Authorization header of a reset request: absent, or the recovery token
ResetHeaders == { <<>>, <<"Bearer", " ", "a1">> }

(***************************************************************************)
(* app/core/security.py: the token resolver.  The access tokens of the     *)
(* resource routes name their user: "jwt-u1" carries a signature the local *)
(* secret verifies, "sb-u2" and "sb-adm" are accepted by the identity      *)
(* provider only, "junk" by neither.                                       *)
(***************************************************************************)
\* lines 20-26
ALT_ACCESS_NAMES ==
    <<ACCESS_COOKIE_NAME, "sb-access-token", "accessToken", "sb-accessToken">>

\* the cookies of a request: per name a value, None when absent
CookieValues == { None, "", "jwt-u1", "sb-u2" }
CookieSets == [{ ALT_ACCESS_NAMES[i] : i \in DOMAIN ALT_ACCESS_NAMES } -> CookieValues]
NoCookies == [n \in { ALT_ACCESS_NAMES[i] : i \in DOMAIN ALT_ACCESS_NAMES } |-> None]

\* the Authorization headers of the requests to the resource routes
ApiHeaders ==
    { <<>>, <<"Bearer", " ", "jwt-u1">>, <<"bearer", " ", "sb-u2">>,
      <<"Bearer", " ", "sb-adm">>, <<"Bearer", " ", "junk">>,
      <<"Basic", " ", "sb-u2">> }

\* the None of the credentials dependency
NoCreds == [scheme |-> None, credentials |-> None]

\* line 29: HTTPBearer(auto_error=False) gives the credentials of a header
\* "<scheme> <credentials>" whose scheme is bearer in any case, else None
bearer_scheme(h) ==
    IF Len(h) = 3 /\ lower(h[1]) = "bearer"
    THEN [scheme |-> h[1], credentials |-> h[3]]
    ELSE NoCreds

\* lines 49-56: jwt.decode with the local secret
_verify_with_local_secret(token) ==
    IF token = "jwt-u1" THEN "u1" ELSE None

\* lines 59-72: GET /auth/v1/user at the provider; any failure gives None
_verify_with_supabase_user_endpoint(token) ==
    CASE token = "jwt-u1" -> "u1"
      [] token = "sb-u2" -> "u2"
      [] token = "sb-adm" -> "adm"
      [] OTHER -> None

\* lines 87-91: the first cookie of names[i..] with a non-empty value
RECURSIVE FirstCookie(_, _, _)
FirstCookie(cookies, names, i) ==
    IF i > Len(names) THEN None
    ELSE IF Truthy(cookies[names[i]]) THEN cookies[names[i]]
    ELSE FirstCookie(cookies, names, i + 1)

\* lines 78-91: the token of a request
ResolveCookieFirst(h, cookies) ==
    LET creds == bearer_scheme(h)
        fromCookie == FirstCookie(cookies, ALT_ACCESS_NAMES, 1)
    IN  IF Truthy(fromCookie) THEN fromCookie
        ELSE IF creds # NoCreds THEN creds.credentials ELSE None

ResolveToken(h, cookies) ==
    LET creds == bearer_scheme(h)
        token == IF creds # NoCreds /\ lower(creds.scheme) = "bearer"
                 THEN creds.credentials ELSE None
    IN  IF ~Truthy(token) THEN FirstCookie(cookies, ALT_ACCESS_NAMES, 1) ELSE token

\* lines 75-110: [token, sub, outcome, remote]; remote: the provider was asked
get_current_subject(h, cookies) ==
    LET token == ResolveToken(h, cookies)
        localSub == _verify_with_local_secret(token)
        remoteSub == _verify_with_supabase_user_endpoint(token)
    IN  IF ~Truthy(token)
        THEN [token |-> None, sub |-> None, outcome |-> Raised(401), remote |-> FALSE]
        ELSE IF localSub # None
        THEN [token |-> token, sub |-> localSub, outcome |-> Returned(200),
              remote |-> FALSE]
        ELSE IF remoteSub # None
        THEN [token |-> token, sub |-> remoteSub, outcome |-> Returned(200),
              remote |-> TRUE]
        ELSE [token |-> token, sub |-> None, outcome |-> Raised(401), remote |-> TRUE]

\* the answer to a request to a resource route: the inputs, the token and
\* the identity the dependencies resolved, and the data of the response
NoResult ==
    [op |-> "none", header |-> <<>>, cookies |-> NoCookies, token |-> None,
     sub |-> None, arg |-> None, calls |-> {}, status |-> 0, code |-> 0,
     rows |-> {}]

Result(op, h, cookies, cur, arg, calls, outcome, rows) ==
    LET out == AppStack(FALSE, [reset |-> 0, count |-> 0], outcome)
    IN  [op |-> op, header |-> h, cookies |-> cookies, token |-> cur.token,
         sub |-> cur.sub, arg |-> arg, calls |-> calls, status |-> out.status,
         code |-> out.code, rows |-> rows]

\* a request to a route that depends on get_current_user only (lines
\* 113-117): the identity, or the 401 of the resolver
WhoIs(h, cookies) ==
    /\ res' = LET cur == get_current_subject(h, cookies)
              IN  Result("whois", h, cookies, cur, None,
                         IF cur.remote THEN {"auth/v1/user"} ELSE {}, cur.outcome,
                         IF cur.sub = None THEN {} ELSE {[id |-> cur.sub]})
    /\ UNCHANGED <<db, rlVars, authVars>>

\* a route without credentials
NoOne == [token |-> None, sub |-> None]

(***************************************************************************)
(* app/routers/auth.py: POST /auth/register.  A username is a sequence of  *)
(* characters.                                                             *)
(***************************************************************************)
\* line 95: ^[a-z0-9_]{3,30}$
USERNAME_MIN == 3
USERNAME_MAX == 30
\* line 110: Field(..., min_length=3, max_length=50)
FIELD_MAX == 50

\* the characters of the usernames: a lower-case letter, an upper-case
\* letter, the underscore and the blank
Alphabet == { "a", "B", "_", " " }
\* [a-z0-9_] among them and their lower-case forms
WordChars == { "a", "b", "_" }

RECURSIVE Rep(_, _)
Rep(c, n) == IF n = 0 THEN <<>> ELSE <<c>> \o Rep(c, n - 1)

\* every username of the two lengths around the lower limit, and usernames
\* around the upper limits of the pattern and of the schema
Usernames ==
    UNION { [1..n -> Alphabet] : n \in {USERNAME_MIN - 1, USERNAME_MIN} }
      \cup { Rep("a", USERNAME_MAX), Rep("a", USERNAME_MAX + 1),
             Rep("a", USERNAME_MAX - 1) \o <<" ", "B">>,
             Rep("a", USERNAME_MAX - 1) \o <<" ", "_">>,
             Rep("a", FIELD_MAX + 1) }

\* str.strip()
RECURSIVE strip(_)
strip(u) ==
    IF u = <<>> THEN u
    ELSE IF Head(u) = " " THEN strip(Tail(u))
    ELSE IF u[Len(u)] = " " THEN strip(SubSeq(u, 1, Len(u) - 1))
    ELSE u

\* str.lower()
lowerSeq(u) == [i \in DOMAIN u |-> IF u[i] = "B" THEN "b" ELSE u[i]]

\* line 99: re.sub(r"[^a-z0-9_]", "_", u)
Underscored(u) == [i \in DOMAIN u |-> IF u[i] \in WordChars THEN u[i] ELSE "_"]

\* line 100: re.sub(r"_+", "_", u)
RECURSIVE Collapsed(_)
Collapsed(u) ==
    IF Len(u) < 2 THEN u
    ELSE IF u[1] = "_" /\ u[2] = "_" THEN Collapsed(Tail(u))
    ELSE <<u[1]>> \o Collapsed(Tail(u))

NormalizeKeepsRuns(u) == Underscored(lowerSeq(strip(u)))

\* lines 97-101
normalize_username(u) == Collapsed(Underscored(lowerSeq(strip(u))))

\* line 95: USERNAME_RE.fullmatch
USERNAME_RE(u) ==
    /\ Len(u) \in USERNAME_MIN..USERNAME_MAX
    /\ \A i \in DOMAIN u : u[i] \in WordChars

\* lines 108-113: RegisterIn, the username field
RegisterIn(u) == Len(u) \in USERNAME_MIN..FIELD_MAX

\* lines 103-104
norm_email(e) == lower(e)

Emails == { "a@x" }
\* the id the provider gives the auth user of an email
AuthId(e) == "id-" \o e

\* POST /auth/v1/admin/users: the body carries the id of the user, or the
\* user was created and the body carries none, or the provider refuses for
\* another reason than a registered email, or the network fails
CreateAnswers == { "id", "noid", "failed", "exc" }
\* lines 59-70: GET /auth/v1/admin/users?email=
LookupAnswers == { "found", "missing", "failed", "exc" }
\* POST /rest/v1/utenti
ProfileAnswers == { "ok", "failed", "exc" }

\* lines 187-195: the profile row of a registration; stato is not written
RegisterProfile(uid, email) ==
    [id |-> uid, email |-> email, role |-> "user", tipo |-> None,
     stato |-> None, is_active |-> TRUE, motivo |-> None]

\* Prefer: resolution=merge-duplicates
Upsert(rows, row) == { r \in rows : r.id # row.id } \cup {row}

\* lines 140-213: [outcome, calls, accounts, utenti, rows]
register(u, e, create, lookup, profile, d) ==
    LET uname == normalize_username(u)
        email == norm_email(e)
        known == email \in d.accounts
        answer == IF known /\ create \in {"id", "noid"} THEN "exists" ELSE create
        made == answer \in {"id", "noid"}
        accounts == IF made THEN d.accounts \cup {email} ELSE d.accounts
        stop(o, calls, acc) ==
            [outcome |-> o, calls |-> calls, accounts |-> acc,
             utenti |-> d.utenti, rows |-> {}]
        c1 == {"admin/users"}
        c2 == IF answer = "noid" THEN c1 \cup {"admin/users?email"} ELSE c1
        c3 == c2 \cup {"rest/utenti"}
    IN  IF ~RegisterIn(u) THEN stop(Invalid, {}, d.accounts)
        ELSE IF ~USERNAME_RE(uname) THEN stop(Raised(422), {}, d.accounts)
        ELSE IF answer = "exc" THEN stop(Raised(502), c1, accounts)
        ELSE IF answer = "exists" THEN stop(Raised(409), c1, accounts)
        ELSE IF answer = "failed" THEN stop(Raised(400), c1, accounts)
        ELSE IF answer = "noid" /\ lookup = "exc" THEN stop(Raised(502), c2, accounts)
        ELSE IF answer = "noid" /\ lookup = "failed"
        THEN stop(Raised(400), c2, accounts)
        ELSE IF answer = "noid" /\ lookup = "missing"
        THEN stop(Raised(500), c2, accounts)
        ELSE IF profile = "exc" THEN stop(Raised(502), c3, accounts)
        ELSE IF profile = "failed" THEN stop(Raised(400), c3, accounts)
        ELSE [outcome |-> Returned(201), calls |-> c3, accounts |-> accounts,
              utenti |-> Upsert(d.utenti, RegisterProfile(AuthId(email), email)),
              rows |-> {[id |-> AuthId(email), email |-> email]}]

Register(u, e, create, lookup, profile) ==
    /\ LET r == register(u, e, create, lookup, profile, db)
       IN  /\ db' = [db EXCEPT !.accounts = r.accounts, !.utenti = r.utenti]
           /\ res' = Result("register", <<>>, NoCookies, NoOne,
                            [username |-> u, email |-> e,
                             known |-> norm_email(e) \in db.accounts],
                            r.calls, r.outcome, r.rows)
    /\ UNCHANGED <<rlVars, authVars>>

(***************************************************************************)
(* app/routers/locatari.py.  A row of locatari is [id, user_id, nome]; the *)
(* data store gives a new row the first free id.                           *)
(***************************************************************************)
LocIds == { "l1", "l2" }
LocHeaders ==
    { <<>>, <<"Bearer", " ", "jwt-u1">>, <<"bearer", " ", "sb-u2">>,
      <<"Bearer", " ", "junk">> }
LocCookies == { NoCookies, [NoCookies EXCEPT !["access_token"] = "jwt-u1"] }

\* a request body: LocatarioIn has nome (lines 13-18); user_id is a field a
\* client may add
LocBodies == [nome : {"n1", "n2"}, user_id : {None, "u1"}]

\* lines 28-31
_bearer_token(h) ==
    IF Len(h) = 3 /\ lower(h[1]) = "bearer" THEN h[3] ELSE None

\* body.model_dump(): the fields of the schema, nothing else
model_dump(body) == [nome |-> body.nome]

CreateDataFromBody(body, uid) ==
    [nome |-> body.nome, user_id |-> PyOr(body.user_id, uid)]

\* lines 45-46: data = body.model_dump(); data["user_id"] = uid
CreateData(body, uid) ==
    [nome |-> model_dump(body).nome, user_id |-> uid]

FreeLoc(d) == LocIds \ { r.id : r \in d.locatari }
NewLocId(d) == CHOOSE i \in FreeLoc(d) : \A j \in FreeLoc(d) : i = j \/ i = "l1"

\* .eq("user_id", uid).eq("id", loc_id)
OwnRow(d, uid, loc_id) ==
    { r \in d.locatari : r.user_id = uid /\ r.id = loc_id }

\* the answer of a locatari handler: [outcome, locatari, rows]
LocAnswer(o, locatari, rows) == [outcome |-> o, locatari |-> locatari, rows |-> rows]

\* .single().execute() on no row: the client raises, or gives no data
SingleAnswers == { "raises", "empty" }
NoRow(single) == IF single = "raises" THEN Uncaught ELSE Raised(404)

\* lines 34-49; ins: the insert gave the row back, or no data
create_locatario(cur, body, ins, d) ==
    IF ~Truthy(cur.sub) THEN LocAnswer(cur.outcome, d.locatari, {})
    ELSE IF ins = "empty" THEN LocAnswer(Raised(400), d.locatari, {})
    ELSE LET data == CreateData(body, cur.sub)
             row == [id |-> NewLocId(d), user_id |-> data.user_id,
                     nome |-> data.nome]
         IN  LocAnswer(Returned(201), d.locatari \cup {row}, {row})

\* lines 52-77
list_locatari(cur, h, d) ==
    IF ~Truthy(cur.sub) THEN LocAnswer(cur.outcome, d.locatari, {})
    ELSE IF ~Truthy(_bearer_token(h)) THEN LocAnswer(Raised(401), d.locatari, {})
    ELSE LocAnswer(Returned(200), d.locatari,
                   { r \in d.locatari : r.user_id = cur.sub })

\* lines 80-105
get_locatario(cur, h, loc_id, single, d) ==
    IF ~Truthy(cur.sub) THEN LocAnswer(cur.outcome, d.locatari, {})
    ELSE IF ~Truthy(_bearer_token(h)) THEN LocAnswer(Raised(401), d.locatari, {})
    ELSE IF OwnRow(d, cur.sub, loc_id) = {}
    THEN LocAnswer(NoRow(single), d.locatari, {})
    ELSE LocAnswer(Returned(200), d.locatari, OwnRow(d, cur.sub, loc_id))

\* lines 108-130
update_locatario(cur, loc_id, body, single, d) ==
    IF ~Truthy(cur.sub) THEN LocAnswer(cur.outcome, d.locatari, {})
    ELSE IF OwnRow(d, cur.sub, loc_id) = {}
    THEN LocAnswer(NoRow(single), d.locatari, {})
    ELSE LET new == { [r EXCEPT !.nome = model_dump(body).nome] :
                        r \in OwnRow(d, cur.sub, loc_id) }
         IN  LocAnswer(Returned(200),
                       (d.locatari \ OwnRow(d, cur.sub, loc_id)) \cup new, new)

\* lines 133-150
delete_locatario(cur, loc_id, d) ==
    IF ~Truthy(cur.sub) THEN LocAnswer(cur.outcome, d.locatari, {})
    ELSE LocAnswer(Returned(204), d.locatari \ OwnRow(d, cur.sub, loc_id), {})

\* one request to a locatari route
LocArg(loc_id, body) == [id |-> loc_id, nome |-> body.nome, user_id |-> body.user_id]
NoBody == [nome |-> None, user_id |-> None]

Locatari(op, h, c, loc_id, body, a) ==
    /\ db' = [db EXCEPT !.locatari = a.locatari]
    /\ res' = Result(op, h, c, get_current_subject(h, c), LocArg(loc_id, body),
                     {}, a.outcome, a.rows)
    /\ UNCHANGED <<rlVars, authVars>>

CreateLocatario(h, c, body, ins) ==
    /\ FreeLoc(db) # {}
    /\ Locatari("create", h, c, None, body,
                create_locatario(get_current_subject(h, c), body, ins, db))

ListLocatari(h, c) ==
    Locatari("list", h, c, None, NoBody,
             list_locatari(get_current_subject(h, c), h, db))

GetLocatario(h, c, loc_id, single) ==
    Locatari("get", h, c, loc_id, NoBody,
             get_locatario(get_current_subject(h, c), h, loc_id, single, db))

UpdateLocatario(h, c, loc_id, body, single) ==
    Locatari("update", h, c, loc_id, body,
             update_locatario(get_current_subject(h, c), loc_id, body, single, db))

DeleteLocatario(h, c, loc_id) ==
    Locatari("delete", h, c, loc_id, NoBody,
             delete_locatario(get_current_subject(h, c), loc_id, db))

\* A row of recensioni_locatari is [id, user_id, locatario_id, rating].
RecIds == { "r1", "r2" }
\* lines 153-155: RecensioneIn, rating: int = Field(..., ge=1, le=5)
RATING_MIN == 1
RATING_MAX == 5
Ratings == { RATING_MIN - 1, RATING_MIN, RATING_MAX }
RecensioneIn(rating) == rating \in RATING_MIN..RATING_MAX

FreeRec(d) == RecIds \ { r.id : r \in d.recensioni }
NewRecId(d) == CHOOSE i \in FreeRec(d) : \A j \in FreeRec(d) : i = j \/ i = "r1"

\* the answer of a recensioni handler: [outcome, recensioni, rows]
RecAnswer(o, recensioni, rows) ==
    [outcome |-> o, recensioni |-> recensioni, rows |-> rows]

\* lines 163-186
list_recensioni_locatario(cur, h, loc_id, d) ==
    IF ~Truthy(cur.sub) THEN RecAnswer(cur.outcome, d.recensioni, {})
    ELSE IF ~Truthy(_bearer_token(h)) THEN RecAnswer(Raised(401), d.recensioni, {})
    ELSE RecAnswer(Returned(200), d.recensioni,
                   { r \in d.recensioni :
                       r.user_id = cur.sub /\ r.locatario_id = loc_id })

\* lines 188-214; ins: the insert gave the row back, or no data
create_recensione_locatario(cur, loc_id, rating, ins, d) ==
    IF ~Truthy(cur.sub) THEN RecAnswer(cur.outcome, d.recensioni, {})
    ELSE IF ~RecensioneIn(rating) THEN RecAnswer(Invalid, d.recensioni, {})
    ELSE IF ins = "empty" THEN RecAnswer(Raised(400), d.recensioni, {})
    ELSE LET row == [id |-> NewRecId(d), user_id |-> cur.sub,
                     locatario_id |-> loc_id, rating |-> rating]
         IN  RecAnswer(Returned(201), d.recensioni \cup {row}, {row})

\* one request to a recensioni route
Recensioni(op, h, c, loc_id, a) ==
    /\ db' = [db EXCEPT !.recensioni = a.recensioni]
    /\ res' = Result(op, h, c, get_current_subject(h, c), LocArg(loc_id, NoBody),
                     {}, a.outcome, a.rows)
    /\ UNCHANGED <<rlVars, authVars>>

ListRecensioni(h, c, loc_id) ==
    Recensioni("list_recensioni", h, c, loc_id,
               list_recensioni_locatario(get_current_subject(h, c), h, loc_id, db))

CreateRecensione(h, c, loc_id, rating, ins) ==
    /\ FreeRec(db) # {}
    /\ Recensioni("create_recensione", h, c, loc_id,
                  create_recensione_locatario(get_current_subject(h, c), loc_id,
                                              rating, ins, db))

(***************************************************************************)
(* app/routers/utenti.py.  A row of utenti is [id, email, role, tipo,      *)
(* stato, is_active, motivo]; the role admin is given outside the          *)
(* application.                                                            *)
(***************************************************************************)
UserIds == { "u1", "u2", "adm" }

\* the Authorization headers of the requests to the utenti routes: none, the
\* token of user u2, of the administrator, and a string of no one
UtHeaders ==
    { <<>>, <<"bearer", " ", "sb-u2">>, <<"Bearer", " ", "sb-adm">>,
      <<"Bearer", " ", "junk">> }

AdminRow ==
    [id |-> "adm", email |-> "adm@x", role |-> "admin", tipo |-> "privato",
     stato |-> "approved", is_active |-> TRUE, motivo |-> None]

\* what the upstream services do during one request: both answer, or the
\* provider cannot be reached, or the data store answers with an error
Upstreams == { "ok", "auth-exc", "rest-failed" }

\* lines 29-32: the header starts with "bearer " in any case
require_bearer(h) == Len(h) = 3 /\ lower(h[1]) = "bearer"

\* GET /auth/v1/user with the header of the request: the user of a token
\* the provider accepts
AuthUser(h) == _verify_with_supabase_user_endpoint(h[3])

\* what a dependency gives: [outcome, sub, calls]; outcome Returned(200)
\* when it lets the request pass
Dep(o, sub, calls) == [outcome |-> o, sub |-> sub, calls |-> calls]
Passed(d) == d.outcome = Returned(200)

\* lines 29-32 as a dependency of a route
bearer_only(h) ==
    IF require_bearer(h) THEN Dep(Returned(200), None, {})
    ELSE Dep(Raised(401), None, {})

\* lines 34-41
get_auth_user(h, up) ==
    IF ~require_bearer(h) THEN Dep(Raised(401), None, {})
    ELSE IF up = "auth-exc" THEN Dep(Raised(502), None, {"auth/v1/user"})
    ELSE IF AuthUser(h) = None THEN Dep(Raised(401), None, {"auth/v1/user"})
    ELSE Dep(Returned(200), AuthUser(h), {"auth/v1/user"})

\* the row of a user, as the select of one column with limit 1 gives it
RowOf(d, uid) == { r \in d.utenti : r.id = uid }

\* lines 43-53
_require_admin(h, up, d) ==
    LET a == get_auth_user(h, up)
        calls == a.calls \cup {"rest/utenti"}
    IN  IF ~Passed(a) THEN a
        ELSE IF up = "rest-failed" THEN Dep(Raised(500), a.sub, calls)
        ELSE IF \E r \in RowOf(d, a.sub) : r.role = "admin"
        THEN Dep(Returned(200), a.sub, calls)
        ELSE Dep(Raised(403), a.sub, calls)

AnyStatoPasses(stato) == TRUE

\* line 63: stato != "approved" is refused
StatoPasses(stato) == stato = "approved"

\* lines 55-65
_require_approved_user(h, up, d) ==
    LET a == get_auth_user(h, up)
        calls == a.calls \cup {"rest/utenti"}
    IN  IF ~Passed(a) THEN a
        ELSE IF up = "rest-failed" THEN Dep(Raised(500), a.sub, calls)
        ELSE IF \E r \in RowOf(d, a.sub) : StatoPasses(r.stato)
        THEN Dep(Returned(200), a.sub, calls)
        ELSE Dep(Raised(403), a.sub, calls)

\* the answer of a utenti route: [outcome, sub, calls, utenti, rows]
UtAnswer(dep, o, utenti, rows) ==
    [outcome |-> o, sub |-> dep.sub, calls |-> dep.calls \cup {"rest/utenti"},
     utenti |-> utenti, rows |-> rows]
Refused(dep, d) ==
    [outcome |-> dep.outcome, sub |-> dep.sub, calls |-> dep.calls,
     utenti |-> d.utenti, rows |-> {}]

\* lines 135-138 and what follows a dependency that passed: the select
\* fails with 500, or gives rows
Select(dep, up, d, rows, none) ==
    IF ~Passed(dep) THEN Refused(dep, d)
    ELSE IF up = "rest-failed" THEN UtAnswer(dep, Raised(500), d.utenti, {})
    ELSE IF rows = {} THEN UtAnswer(dep, none, d.utenti, {})
    ELSE UtAnswer(dep, Returned(200), d.utenti, rows)

\* lines 160-170
list_utenti(h, up, d) ==
    Select(bearer_only(h), up, d, d.utenti, Returned(200))

\* lines 172-177: me of the utenti router
utenti_me(h, up, d) ==
    LET dep == _require_approved_user(h, up, d)
    IN  Select(dep, up, d, RowOf(d, dep.sub), Raised(404))

\* lines 179-183
get_utente(h, user_id, up, d) ==
    Select(bearer_only(h), up, d, RowOf(d, user_id), Raised(404))

\* lines 226-228
list_pending(h, up, d) ==
    Select(_require_admin(h, up, d), up, d,
           { r \in d.utenti : r.stato = "pending" }, Returned(200))

\* lines 185-224: register_privato and register_azienda
register_profile(h, tipo, up, d) ==
    LET dep == get_auth_user(h, up)
        rec == [id |-> dep.sub, email |-> "a@x", role |-> "user", tipo |-> tipo,
                stato |-> "pending", is_active |-> TRUE, motivo |-> None]
    IN  IF ~Passed(dep) THEN Refused(dep, d)
        ELSE IF up = "rest-failed" THEN UtAnswer(dep, Raised(500), d.utenti, {})
        ELSE IF RowOf(d, dep.sub) # {} THEN UtAnswer(dep, Raised(409), d.utenti, {})
        ELSE UtAnswer(dep, Returned(201), d.utenti \cup {rec}, {rec})

\* lines 232-239: the patch of a decision
Decided(r, azione, motivo) ==
    IF azione = "approve"
    THEN [r EXCEPT !.stato = "approved", !.motivo = None, !.is_active = TRUE]
    ELSE [r EXCEPT !.stato = "rejected", !.motivo = PyOr(motivo, ""),
                   !.is_active = FALSE]

\* lines 230-246; an update that matches no row gives a list the response
\* model refuses
decide_user(h, user_id, azione, motivo, up, d) ==
    LET dep == _require_admin(h, up, d)
        new == { Decided(r, azione, motivo) : r \in RowOf(d, user_id) }
    IN  IF ~Passed(dep) THEN Refused(dep, d)
        ELSE IF up = "rest-failed" THEN UtAnswer(dep, Raised(500), d.utenti, {})
        ELSE IF new = {} THEN UtAnswer(dep, Uncaught, d.utenti, {})
        ELSE UtAnswer(dep, Returned(200), (d.utenti \ RowOf(d, user_id)) \cup new,
                      new)

\* one request to a utenti route
UtArg(user_id, azione, up) == [id |-> user_id, azione |-> azione, up |-> up]

Utenti(op, h, arg, a) ==
    /\ db' = [db EXCEPT !.utenti = a.utenti]
    /\ res' = Result(op, h, NoCookies,
                     [token |-> IF Len(h) = 3 THEN h[3] ELSE None, sub |-> a.sub],
                     arg, a.calls, a.outcome, a.rows)
    /\ UNCHANGED <<rlVars, authVars>>

ListUtenti(h, up) == Utenti("utenti", h, UtArg(None, None, up), list_utenti(h, up, db))

GetUtente(h, user_id, up) ==
    Utenti("utente", h, UtArg(user_id, None, up), get_utente(h, user_id, up, db))

UtentiMe(h, up) ==
    Utenti("utenti/me", h, UtArg(None, None, up), utenti_me(h, up, db))

ListPending(h, up) ==
    Utenti("pending", h, UtArg(None, None, up), list_pending(h, up, db))

RegisterPrivato(h, up) ==
    Utenti("register_privato", h, UtArg(None, None, up),
           register_profile(h, "privato", up, db))

RegisterAzienda(h, up) ==
    Utenti("register_azienda", h, UtArg(None, None, up),
           register_profile(h, "azienda", up, db))

DecideUser(h, user_id, azione, motivo, up) ==
    Utenti("decide", h, UtArg(user_id, azione, up),
           decide_user(h, user_id, azione, motivo, up, db))

(***************************************************************************)
(* Specifications                                                          *)
(***************************************************************************)
EmptyBuckets == [k \in {} |-> [reset |-> 0, count |-> 0]]

DefaultConfig ==
    [ENV |-> "development", COOKIE_SAMESITE |-> "lax", COOKIE_SECURE |-> FALSE,
     COOKIE_DOMAIN |-> None]

\* the coroutines of the model
Tasks == { "t1", "t2" }

InitRateLimit ==
    /\ now = 0 /\ buckets = EmptyBuckets /\ rlLast = NoRequest
    /\ task = [t \in Tasks |-> IdleTask]
    /\ tally = NoTally
    /\ fwdlog = NoLog

InitAuth(configs, workers, rotating) ==
    /\ cfg \in configs
    /\ idp \in [next : {1}, current : {None}, used : {{}}, rotates : rotating]
    /\ jar = {}
    /\ slot = [w \in workers |-> IdleSlot]
    /\ last = NoResponse
    /\ hist = [overlap |-> FALSE, lost |-> FALSE]

\* the rate limiter in front of some handler
\* the data store before any request
EmptyDb == [accounts |-> {}, utenti |-> {}, locatari |-> {}, recensioni |-> {}]

InitApi == db = EmptyDb /\ res = NoResult

InitRL == InitRateLimit /\ InitAuth({DefaultConfig}, {"w1"}, {TRUE}) /\ InitApi

NextRL ==
    \/ Tick
    \/ \E r \in Requests, handler \in HandlerOutcomes :
           rate_limit_middleware(r.client, r.path, handler) /\ UNCHANGED fwdlog

SpecRL == InitRL /\ [][NextRL]_vars

\* the requests of two clients to /auth/login over several windows, with
\* the log of the forwarded ones
WindowRequests == { r \in Requests : r.path = <<"/auth", "/login">> }

NextWin ==
    \/ Tick
    \/ \E r \in WindowRequests, handler \in HandlerOutcomes :
           /\ rate_limit_middleware(r.client, r.path, handler)
           /\ fwdlog' = Logged(rlLast', now)

SpecWin == InitRL /\ [][NextWin]_vars

\* the token resolver on every header and every set of cookies
NextResolver == \E h \in ApiHeaders, cookies \in CookieSets : WhoIs(h, cookies)

SpecResolver == InitRL /\ [][NextResolver]_vars

\* registrations with every username and every answer of the provider and of
\* the data store; a call that nothing reads is not varied
NextRegister ==
    \E u \in Usernames, e \in Emails, create \in CreateAnswers :
        \E lookup \in IF create = "noid" THEN LookupAnswers ELSE {"found"} :
            \E profile \in IF create \in {"id", "noid"} /\ lookup = "found"
                            THEN ProfileAnswers ELSE {"ok"} :
                Register(u, e, create, lookup, profile)

SpecRegister == InitRL /\ [][NextRegister]_vars

\* the locatari routes, called by two users and by callers without a valid
\* token
NextLocatari ==
    \/ \E h \in LocHeaders, c \in LocCookies, body \in LocBodies,
          ins \in {"row", "empty"} : CreateLocatario(h, c, body, ins)
    \/ \E h \in LocHeaders, c \in LocCookies : ListLocatari(h, c)
    \/ \E h \in LocHeaders, c \in LocCookies, i \in LocIds, single \in SingleAnswers :
          GetLocatario(h, c, i, single)
    \/ \E h \in LocHeaders, c \in LocCookies, i \in LocIds, body \in LocBodies,
          single \in SingleAnswers : UpdateLocatario(h, c, i, body, single)
    \/ \E h \in LocHeaders, c \in LocCookies, i \in LocIds : DeleteLocatario(h, c, i)

SpecLocatari == InitRL /\ [][NextLocatari]_vars

\* reviews of locatari: users create locatari, then create and list reviews
NextRecensioni ==
    \/ \E h \in LocHeaders, nome \in {"n1"} :
          CreateLocatario(h, NoCookies, [nome |-> nome, user_id |-> None], "row")
    \/ \E h \in LocHeaders, c \in LocCookies, i \in LocIds, rating \in Ratings,
          ins \in {"row", "empty"} : CreateRecensione(h, c, i, rating, ins)
    \/ \E h \in LocHeaders, c \in LocCookies, i \in LocIds : ListRecensioni(h, c, i)

SpecRecensioni == InitRL /\ [][NextRecensioni]_vars

\* the utenti routes, called by two users, an administrator and callers
\* without a valid token
InitUtenti ==
    /\ InitRateLimit /\ InitAuth({DefaultConfig}, {"w1"}, {TRUE})
    /\ db = [EmptyDb EXCEPT !.utenti = {AdminRow}]
    /\ res = NoResult

NextUtenti ==
    \/ \E h \in UtHeaders, up \in Upstreams : ListUtenti(h, up)
    \/ \E h \in UtHeaders, i \in UserIds, up \in Upstreams : GetUtente(h, i, up)
    \/ \E h \in UtHeaders, up \in Upstreams : UtentiMe(h, up)
    \/ \E h \in UtHeaders, up \in Upstreams : ListPending(h, up)
    \/ \E h \in UtHeaders, up \in Upstreams : RegisterPrivato(h, up)
    \/ \E h \in UtHeaders, up \in Upstreams : RegisterAzienda(h, up)
    \/ \E h \in UtHeaders, i \in UserIds, azione \in {"approve", "reject"},
          motivo \in {None, "m"}, up \in Upstreams : DecideUser(h, i, azione, motivo, up)

SpecUtenti == InitUtenti /\ [][NextUtenti]_vars

\* concurrent requests on one event loop, within one window
NextLoop ==
    \/ \E t \in Tasks, r \in Requests : Arrive(t, r.client, r.path)
    \/ \E t \in Tasks : Resume(t)

SpecLoop == InitRL /\ [][NextLoop]_vars

\* the requests that obtain tokens
NextTokens ==
    \/ \E w \in DOMAIN slot, answer \in PasswordAnswers, net \in Nets :
          LoginCall(w, answer, net)
    \/ \E w \in DOMAIN slot : LoginReturn(w)
    \/ \E w \in DOMAIN slot, body \in BodyChoices, cookie \in CookieChoices,
          net \in Nets, keep \in KeepChoices : RefreshCall(w, body, cookie, net, keep)
    \/ \E w \in DOMAIN slot : RefreshReturn(w)

NextAuth ==
    \/ NextTokens
    \/ \E w \in DOMAIN slot, header \in Headers, net \in {"ok", "unreachable"} :
          MeCall(w, header, net)
    \/ \E w \in DOMAIN slot : MeReturn(w)
    \/ \E w \in DOMAIN slot : Logout(w)
    \/ \E w \in DOMAIN slot, answer \in RecoverAnswers, net \in {"ok", "unreachable"} :
          ForgotCall(w, answer, net)
    \/ \E w \in DOMAIN slot : ForgotReturn(w)
    \/ \E w \in DOMAIN slot, header \in ResetHeaders, answer \in UpdateAnswers,
          net \in {"ok", "unreachable"} : ResetCall(w, header, answer, net)
    \/ \E w \in DOMAIN slot : ResetReturn(w)

\* the login and forgot routes behind the limiter, within one window
NextEdge ==
    \/ \E w \in DOMAIN slot, client \in Clients, answer \in PasswordAnswers,
          net \in Nets : GuardedLogin(w, client, answer, net)
    \/ \E w \in DOMAIN slot : LoginReturn(w)
    \/ \E w \in DOMAIN slot, client \in Clients, answer \in RecoverAnswers,
          net \in {"ok", "unreachable"} : GuardedForgot(w, client, answer, net)
    \/ \E w \in DOMAIN slot : ForgotReturn(w)

SpecEdge == InitRL /\ [][NextEdge]_vars

\* the auth router under every configuration, one request at a time
InitAuthSeq == InitRateLimit /\ InitAuth(Configs, {"w1"}, BOOLEAN) /\ InitApi
SpecAuth == InitAuthSeq /\ [][NextAuth]_vars

\* two worker threads serving the Login and Refresh requests of a session,
\* with a provider that rotates refresh tokens
InitAuthConc ==
    InitRateLimit /\ InitAuth({DefaultConfig}, {"w1", "w2"}, {TRUE}) /\ InitApi
SpecConc == InitAuthConc /\ [][NextTokens]_vars


(***************************************************************************)
(* Properties                                                              *)
(***************************************************************************)
\* the cookies a response sets, and the ones it deletes
SetCookies(r) == { c \in r.cookies : c.op = "set" }
Sets(r, key) == \E c \in r.cookies : c.op = "set" /\ c.key = key
Deletes(r, key) == \E c \in r.cookies : c.op = "delete" /\ c.key = key
Idle == \A w \in DOMAIN slot : slot[w].pc = "idle"
\* the last request went through the limiter for a protected path
Limited == rlLast.count > 0

\* C1 (as claimed): of the requests of one client to one protected path in
\* one window, the first MAX_REQ are forwarded to the handler and request
\* MAX_REQ + 1 is answered to the client with status 429.
C1_FirstForwardedNextGets429 ==
    Limited =>
        /\ rlLast.count <= MAX_REQ => rlLast.forwarded
        /\ rlLast.count = MAX_REQ + 1 => rlLast.status = 429

\* C2 (as claimed): a request that finds its bucket with now >= reset starts
\* a fresh window: the bucket becomes (now + WINDOW_SEC, 1) and the request
\* is forwarded.
C2_FreshWindowAtReset ==
    [][\A k \in DOMAIN buckets :
          (buckets'[k] # buckets[k] /\ now >= buckets[k].reset)
              => /\ buckets'[k] = [reset |-> now + WINDOW_SEC, count |-> 1]
                 /\ rlLast'.forwarded]_vars

\* C2 (amended): a request that finds its bucket with now > reset starts a
\* fresh window, (now + WINDOW_SEC, 1), and is forwarded, whatever the count
\* of the old window; a request arriving with now <= reset, the boundary
\* now = reset included, is counted in the old window, whose reset time stays.
C2_FreshWindowPastReset ==
    [][\A k \in DOMAIN buckets :
          buckets'[k] # buckets[k]
              => IF now > buckets[k].reset
                 THEN /\ buckets'[k] = [reset |-> now + WINDOW_SEC, count |-> 1]
                      /\ rlLast'.forwarded
                 ELSE buckets'[k] = [reset |-> buckets[k].reset,
                                     count |-> buckets[k].count + 1]]_vars

\* C2 witness: a request found an exhausted window past its reset time and
\* was forwarded as request 1 of a new window
C2_Witness ==
    /\ rlLast.prev > MAX_REQ
    /\ rlLast.count = 1
    /\ rlLast.forwarded
    /\ rlLast.reset = now + WINDOW_SEC

\* C3 (as claimed): GET /auth/me without Authorization header, carrying a
\* refresh cookie the provider accepts, is answered 200 and its response
\* sets the access-token cookie and the refresh-token cookie.
C3_MeRefreshesFromCookie ==
    (/\ last.op = "me"
     /\ last.header = <<>>
     /\ Truthy(last.cookie)
     /\ last.cookie = idp.current)
        => /\ last.status = 200
           /\ Sets(last, ACCESS_COOKIE_NAME)
           /\ Sets(last, REFRESH_COOKIE_NAME)

\* C4 (as claimed): a successful Login sets the access-token cookie and the
\* refresh-token cookie, and every cookie any response sets is HttpOnly.
C4_LoginSetsBothCookiesHttpOnly ==
    /\ (last.op = "login" /\ last.status = 200)
           => /\ Sets(last, ACCESS_COOKIE_NAME)
              /\ Sets(last, REFRESH_COOKIE_NAME)
    /\ \A c \in SetCookies(last) : c.httponly

\* C5 (as claimed): in the development environment every cookie Login or
\* Refresh sets has SameSite=lax, Secure=false and no domain, whatever
\* COOKIE_SAMESITE, COOKIE_SECURE and COOKIE_DOMAIN are.
C5_LocalEnvironmentOverrides ==
    (cfg.ENV = "development" /\ last.op \in {"login", "refresh"})
        => \A c \in SetCookies(last) :
               c.samesite = "lax" /\ ~c.secure /\ c.domain = None

\* C6: a cookie set with SameSite "none" in any letter case is Secure, even
\* with COOKIE_SECURE false; a cookie set with another SameSite has Secure
\* equal to COOKIE_SECURE.
C6_SecureForcedBySameSiteNone ==
    \A c \in SetCookies(last) :
        IF c.samesite \in {"none", "None", "NONE"}
        THEN c.secure
        ELSE c.secure = cfg.COOKIE_SECURE

\* C6 witness: COOKIE_SECURE is false, COOKIE_SAMESITE is "None", and the
\* refresh cookie of a Login went out Secure
C6_Witness ==
    /\ last.op = "login"
    /\ ~cfg.COOKIE_SECURE
    /\ \E c \in SetCookies(last) : c.samesite = "None" /\ c.secure

\* a refresh presenting a token a refresh consumed before: never 200, no cookie
StaleRefreshRejected(statuses) ==
    (last.op = "refresh" /\ last.stale)
        => last.status \in statuses /\ last.cookies = {}

\* two refreshes in flight with the same token: the provider granted one at most
NoDoubleRefresh ==
    \A v, w \in DOMAIN slot :
        (/\ v # w
         /\ slot[v].op = "refresh" /\ slot[w].op = "refresh"
         /\ slot[v].pc = "called" /\ slot[w].pc = "called"
         /\ slot[v].sent = slot[w].sent)
            => ~(slot[v].up.status = 200 /\ slot[w].up.status = 200)

\* the refresh cookie the client holds is the token the provider accepts
CookieIsCurrent ==
    Truthy(CookieGet(jar, REFRESH_COOKIE_NAME))
        => CookieGet(jar, REFRESH_COOKIE_NAME) = idp.current

C8_RefreshOverwritesCookies ==
    last.op = "refresh"
        => IF last.status = 200
           THEN /\ Sets(last, ACCESS_COOKIE_NAME)
                /\ Sets(last, REFRESH_COOKIE_NAME) <=> Truthy(last.refresh_token)
           ELSE last.cookies = {}

\* the token a refresh request must resolve to
ExpectedToken(r) ==
    IF Truthy(r.body) THEN r.body
    ELSE IF Truthy(r.cookie) THEN r.cookie
    ELSE None

\* C9: Refresh sends the provider the body field when it is non-empty,
\* otherwise the refresh cookie; with neither it answers 401 and does not
\* call the provider.
C9_RefreshTokenSource ==
    /\ \A w \in DOMAIN slot :
           (slot[w].op = "refresh" /\ slot[w].pc = "called")
               => /\ Truthy(ExpectedToken(slot[w]))
                  /\ slot[w].sent = ExpectedToken(slot[w])
    /\ last.op = "refresh"
           => IF Truthy(ExpectedToken(last))
              THEN last.called /\ last.sent = ExpectedToken(last)
              ELSE ~last.called /\ last.status = 401 /\ last.sent = None

\* C9 witness: a Refresh carried a body token and a different cookie, and
\* the provider was sent the body token
C9_Witness ==
    /\ last.op = "refresh"
    /\ Truthy(last.body) /\ Truthy(last.cookie)
    /\ last.body # last.cookie
    /\ last.called /\ last.sent = last.body

\* C10 (as claimed): the response of Logout deletes the access-token cookie
\* and the refresh-token cookie.
C10_LogoutClearsBothCookies ==
    last.op = "logout"
        => /\ Deletes(last, ACCESS_COOKIE_NAME)
           /\ Deletes(last, REFRESH_COOKIE_NAME)

\* C11: Logout is answered 200 from every state, with or without a
\* session or a refresh cookie, and without a call to the identity provider,
\* whose state stays as it was.  The client that applies its instructions
\* holds no refresh cookie afterwards, so a second Logout leaves the cookie
\* jar as the first one left it.
C11_LogoutIdempotent ==
    [][last'.op = "logout"
          => /\ last'.status = 200
             /\ ~last'.called /\ last'.upstream = 0
             /\ idp' = idp
             /\ CookieGet(jar', REFRESH_COOKIE_NAME) = None
             /\ last.op = "logout" => jar' = jar]_vars

\* C11 witness: a Login was answered (the provider holds a session and no
\* answer was lost), and a Logout that found the refresh cookie already
\* deleted is answered 200: the second Logout of the session
C11_Witness ==
    /\ last.op = "logout" /\ last.status = 200
    /\ last.cookie = None
    /\ idp.current # None /\ ~hist.lost
    /\ jar = {}

\* C12: a GET /auth/me that directly follows the Logout of a session opened
\* by Login, from a client that applied the instructions of the Logout and
\* sends no Authorization header, carries no refresh cookie and is answered
\* 401 (missing token) without a call to the identity provider.
C12_MeAfterLogoutIsMissingToken ==
    [][(/\ last.op = "logout" /\ Truthy(last.cookie)
        /\ last'.op = "me" /\ last'.header = <<>>)
          => /\ last'.cookie = None
             /\ last'.status = 401 /\ last'.code = 401
             /\ ~last'.called /\ last'.sent = None
             /\ idp' = idp]_vars

\* C12 witness: the provider holds the session a Login opened, its answer
\* reached the client, the jar is empty again (a Logout deleted the cookie)
\* and a GET /auth/me without header and cookie was answered 401
C12_Witness ==
    /\ last.op = "me" /\ last.header = <<>> /\ last.cookie = None
    /\ last.status = 401 /\ ~last.called
    /\ idp.current # None /\ ~hist.lost
    /\ jar = {}

\* an Authorization header value that is absent or has another scheme
NoBearerHeader(h) == h = <<>> \/ h[1] \notin {"Bearer", "bearer", "BEARER"}

\* C13: every GET /auth/me without a Bearer Authorization header and without
\* a token cookie is answered 401 (missing token), and the identity provider
\* is not called.
C13_MeWithoutTokenIs401 ==
    /\ (last.op = "me" /\ NoBearerHeader(last.header) /\ last.cookie = None)
           => /\ last.status = 401 /\ last.code = 401
              /\ ~last.called /\ last.sent = None /\ last.upstream = 0
    /\ \A w \in DOMAIN slot :
           (slot[w].op = "me" /\ slot[w].pc = "called")
               => ~NoBearerHeader(slot[w].header)

\* C13 witness: a GET /auth/me with a Basic Authorization header and no
\* cookie was answered 401 without a call
C13_Witness ==
    /\ last.op = "me" /\ last.header = <<"Basic", " ", "a1">>
    /\ last.cookie = None
    /\ last.status = 401 /\ ~last.called

\* C14: a Login the provider answers with a status other than 200 fails
\* with 401, a Login whose call fails at network level fails with 502, and
\* a failed Login sets no cookie and returns no token.
C14_LoginFailures ==
    last.op = "login"
        => /\ last.called
           /\ last.upstream \notin {0, 200} => last.status = 401
           /\ last.upstream = 0 => last.status = 502
           /\ last.upstream = 200 => last.status = 200
           /\ last.status # 200
                  => /\ last.cookies = {}
                     /\ last.access_token = None
                     /\ last.refresh_token = None

\* C14 witness: a session exists, and a Login whose call failed at network
\* level was answered 502 without cookie; the client's jar still holds the
\* cookie of the session
C14_Witness ==
    /\ last.op = "login" /\ last.upstream = 0 /\ last.status = 502
    /\ last.cookies = {}
    /\ Truthy(CookieGet(jar, REFRESH_COOKIE_NAME))

\* the operations of the auth router that call the identity provider
ProviderOps == { "login", "refresh", "me", "forgot", "reset" }

\* the one call a request made failed at network level
CallFailed(r) == r.called /\ r.upstream = 0

\* C15 (as claimed): every auth operation whose call to the identity
\* provider fails with a timeout or a connection error is answered 502.
C15_NetworkFailureIs502 ==
    (last.op \in ProviderOps /\ CallFailed(last))
        => last.status = 502 /\ last.code = 502

\* a (reset, count) pair as the limiter writes it within the first window
WellFormed(b) ==
    /\ DOMAIN b = {"reset", "count"}
    /\ b.reset = WINDOW_SEC
    /\ b.count \in 1..(MAX_REQ + MaxOver)

\* C16: with concurrent requests on one key, no coroutine is suspended
\* between reading the bucket and writing it back, so no increment is lost:
\* the stored count is the number of requests that arrived in the window, at
\* most MAX_REQ of them were forwarded, a forwarded request holds a count of
\* its own, and every bucket is a well-formed (reset, count) pair.
C16_CountingIsAtomic ==
    /\ \A t \in Tasks : task[t].pc # "lookup"
    /\ \A k \in Keys :
           /\ k \in DOMAIN buckets <=> tally[k].arrived > 0
           /\ k \in DOMAIN buckets
                  => /\ buckets[k].count = tally[k].arrived
                     /\ WellFormed(buckets[k])
           /\ tally[k].forwarded <= MAX_REQ
           /\ tally[k].forwarded <= tally[k].arrived
    /\ DOMAIN buckets \subseteq Keys
    /\ \A t, u \in Tasks :
           (/\ t # u
            /\ task[t].pc = "call_next" /\ task[u].pc = "call_next"
            /\ task[t].count > 0
            /\ BucketKey(task[t].ip, task[t].path) = BucketKey(task[u].ip, task[u].path))
               => task[t].count # task[u].count

\* C16 witness: two requests on one key are in flight below the limiter at
\* the same time, with counts 1 and 2, and the bucket holds 2
C16_Witness ==
    \E k \in Keys :
        /\ k \in DOMAIN buckets /\ buckets[k].count = MAX_REQ
        /\ tally[k] = [arrived |-> MAX_REQ, forwarded |-> MAX_REQ]
        /\ \A t \in Tasks :
               task[t].pc = "call_next" /\ BucketKey(task[t].ip, task[t].path) = k

\* the protected prefixes a path starts with
PrefixesOf(path) == { p \in PROTECTED_PATHS : startswith(path, p) }

\* C17 (as claimed): buckets are keyed by (client IP, protected prefix): the
\* buckets of one IP whose paths match the same protected prefix are one
\* window and one count.
C17_KeyedByPrefix ==
    \A j, k \in DOMAIN buckets :
        (j[1] = k[1] /\ PrefixesOf(j[2]) \cap PrefixesOf(k[2]) # {})
            => buckets[j] = buckets[k]

\* C17 (amended): buckets are keyed by (client IP, request path).  A request
\* to a protected path reads and writes the bucket of its own IP and its own
\* full path and no other bucket, so requests of one IP to /auth/login and
\* to /auth/login/x are counted apart.
C17_KeyedByPath ==
    [][(Limited' /\ buckets' # buckets)
          => LET k == <<rlLast'.ip, rlLast'.path>>
             IN  /\ DOMAIN buckets' = DOMAIN buckets \cup {k}
                 /\ buckets'[k].count = rlLast'.count
                 /\ rlLast'.count =
                        IF k \in DOMAIN buckets /\ now <= buckets[k].reset
                        THEN buckets[k].count + 1
                        ELSE 1
                 /\ \A j \in DOMAIN buckets \ {k} : buckets'[j] = buckets[j]]_vars

\* C17 witness: after MAX_REQ requests of one client to /auth/login, its
\* request to /auth/login/x in the same window is request 1 of another
\* bucket and is forwarded
C17_Witness ==
    LET a == <<"10.0.0.1", <<"/auth", "/login">>>>
        b == <<"10.0.0.1", <<"/auth", "/login", "/x">>>>
    IN  /\ a \in DOMAIN buckets /\ b \in DOMAIN buckets
        /\ buckets[a].count = MAX_REQ /\ now <= buckets[a].reset
        /\ buckets[b].count = 1
        /\ rlLast.path = b[2] /\ rlLast.count = 1 /\ rlLast.forwarded

\* C18: a request whose path starts with no protected prefix is forwarded
\* to the handler, its response comes back without rate-limit headers, and
\* the bucket map stays as it was, whatever buckets it holds.
C18_UnprotectedBypasses ==
    [][(rlLast'.path # <<>> /\ PrefixesOf(rlLast'.path) = {})
          => /\ buckets' = buckets
             /\ rlLast'.forwarded /\ ~rlLast'.annotated
             /\ rlLast'.count = 0
             /\ rlLast'.status \in {200, 401}]_vars

\* C18 witness: a request to /health was forwarded while the same client's
\* bucket for /auth/login is exhausted and its window still open
C18_Witness ==
    LET a == <<"10.0.0.1", <<"/auth", "/login">>>>
    IN  /\ rlLast.path = <<"/health">> /\ rlLast.ip = "10.0.0.1"
        /\ rlLast.forwarded /\ rlLast.status = 200
        /\ a \in DOMAIN buckets
        /\ buckets[a].count > MAX_REQ /\ now <= buckets[a].reset
        /\ \A k \in DOMAIN buckets : k[2] # <<"/health">>

RaisedLast == Limited /\ ~rlLast.forwarded

\* C20: the number of seconds in the message of a raising limiter is an
\* integer from 0 to WINDOW_SEC, and the next request of the same client to
\* the same path that arrives that many seconds plus one after the rejected
\* one, or later, is forwarded.
C20_RetryAfterHint ==
    [][/\ RaisedLast' => rlLast'.hint \in 0..WINDOW_SEC
       /\ (/\ RaisedLast
           /\ buckets' # buckets
           /\ rlLast'.ip = rlLast.ip /\ rlLast'.path = rlLast.path
           /\ now >= rlLast.at + rlLast.hint + 1)
             => rlLast'.forwarded /\ rlLast'.count = 1]_vars

\* C20 witness: a request rejected at time 0 with the hint WINDOW_SEC was
\* followed, WINDOW_SEC + 1 seconds after it, by a request of the same
\* client to the same path, which found the exhausted bucket and was
\* forwarded as request 1 of a new window
C20_Witness ==
    /\ now = WINDOW_SEC + 1
    /\ rlLast.prev = MAX_REQ + 1
    /\ rlLast.count = 1 /\ rlLast.forwarded
    /\ rlLast.reset = now + WINDOW_SEC
    /\ DOMAIN buckets = {<<rlLast.ip, rlLast.path>>}

\* the requests of key k forwarded from second t to second u
RECURSIVE ForwardedIn(_, _, _)
ForwardedIn(k, t, u) ==
    IF t > u \/ t > MaxTime THEN 0 ELSE fwdlog[k][t] + ForwardedIn(k, t + 1, u)

\* C21: for every key and every interval of WINDOW_SEC seconds, both ends
\* included, at most 2 * MAX_REQ requests of the key were forwarded in it.
C21_TwiceTheRateAtMost ==
    \A k \in Keys : \A t \in 0..MaxTime :
        ForwardedIn(k, t, t + WINDOW_SEC) <= 2 * MAX_REQ

\* C21 witness: a window opened at second 0, its last request was
\* forwarded in its last second, and MAX_REQ requests of the next window
\* were forwarded one second later: more than MAX_REQ in two seconds
C21_Witness ==
    \E k \in Keys :
        /\ now = WINDOW_SEC + 1
        /\ fwdlog[k][0] = 1
        /\ fwdlog[k][WINDOW_SEC] = MAX_REQ - 1
        /\ fwdlog[k][WINDOW_SEC + 1] = MAX_REQ
        /\ ForwardedIn(k, WINDOW_SEC, WINDOW_SEC + 1) > MAX_REQ
        /\ buckets[k] = [reset |-> now + WINDOW_SEC, count |-> MAX_REQ]

\* the token a request must resolve to: the header's, else the first
\* non-empty cookie in the order of the aliases
ExpectedAccessToken(r) ==
    IF r.header # <<>> /\ r.header[1] \in {"Bearer", "bearer", "BEARER"}
    THEN r.header[3]
    ELSE IF Truthy(r.cookies["access_token"]) THEN r.cookies["access_token"]
    ELSE IF Truthy(r.cookies["sb-access-token"]) THEN r.cookies["sb-access-token"]
    ELSE IF Truthy(r.cookies["accessToken"]) THEN r.cookies["accessToken"]
    ELSE IF Truthy(r.cookies["sb-accessToken"]) THEN r.cookies["sb-accessToken"]
    ELSE None

\* C22: the resolver takes the credential of a Bearer header (scheme in any
\* case) when there is one, else the first non-empty cookie among
\* access_token, sb-access-token, accessToken, sb-accessToken, else answers
\* 401; the token of the header decides alone, so a request with an invalid
\* header token and a valid cookie is answered 401.
C22_TokenResolver ==
    res.op = "whois"
        => /\ res.token = ExpectedAccessToken(res)
           /\ res.token = None => res.status = 401 /\ res.rows = {}
           /\ (res.header # <<>> /\ res.header[1] \in {"Bearer", "bearer"}
                  /\ res.header[3] = "junk")
                 => res.status = 401 /\ res.sub = None

\* C22 witness: the header holds an invalid Bearer token, the first cookie
\* a valid one, and the request was answered 401 for the header's token
C22_Witness ==
    /\ res.op = "whois"
    /\ res.header = <<"Bearer", " ", "junk">>
    /\ res.cookies["access_token"] = "jwt-u1"
    /\ res.token = "junk" /\ res.status = 401

LocOps == { "create", "list", "get", "update", "delete" }

\* the rows of locatari that do not belong to user u
RowsOfOthers(d, u) == { r \in d.locatari : r.user_id # u }

\* C25: every locatari operation leaves the rows of other users than the
\* caller as they were, adds or changes only rows whose user_id is the
\* identity resolved from the caller's token, whatever user_id the body
\* names, and returns only rows of the caller; a caller without identity
\* changes and reads nothing.
C25_OwnRowsOnly ==
    [][res'.op \in LocOps
          => /\ RowsOfOthers(db', res'.sub) = RowsOfOthers(db, res'.sub)
             /\ \A r \in res'.rows : r.user_id = res'.sub /\ r \in db'.locatari
             /\ res'.sub = None => db' = db /\ res'.rows = {}
             /\ (res'.op = "create" /\ res'.status = 201)
                   => \E r \in db'.locatari \ db.locatari :
                          r.user_id = res'.sub /\ res'.rows = {r}]_vars

\* C25 witness: user u2 named the row of user u1 in an update whose body
\* carried user_id, got no data, and the row is as u1 created it
C25_Witness ==
    /\ res.op = "update" /\ res.sub = "u2" /\ res.arg.id = "l1"
    /\ res.arg.user_id = "u1" /\ res.arg.nome = "n2"
    /\ res.rows = {} /\ res.status \in {404, 500}
    /\ [id |-> "l1", user_id |-> "u1", nome |-> "n1"] \in db.locatari

\* the routes of /utenti that return profile records
ProfileReads == { "utenti", "utente", "utenti/me", "pending" }

\* C26: a /utenti route that returns profile records returns them only when
\* the identity provider accepted the bearer token in that request; an
\* arbitrary string after "Bearer " obtains no record.
C26_ProfilesNeedAcceptedToken ==
    (res.op \in ProfileReads /\ res.rows # {})
        => /\ "auth/v1/user" \in res.calls
           /\ AuthUser(res.header) # None

\* the caller of the last request is a user the provider knows, and the
\* upstream services answered
CallerKnown == require_bearer(res.header) /\ AuthUser(res.header) # None
CallerIsAdmin(d) ==
    CallerKnown /\ \E r \in RowOf(d, AuthUser(res.header)) : r.role = "admin"

\* C27: a profile written by register_privato or register_azienda starts
\* with stato pending; decide_user by an administrator is accepted whatever
\* the stato of the row was, and leaves it approved, active and without
\* motivo on approve, rejected and inactive on reject; GET /utenti/me gives
\* the caller's profile only while its stato is approved, and answers 403
\* while it is pending, rejected or absent.
C27_ApprovalGate ==
    [][/\ (res'.op \in {"register_privato", "register_azienda"} /\ res'.status = 201)
            => /\ RowOf(db, res'.sub) = {}
               /\ \E r \in RowOf(db', res'.sub) :
                      r.stato = "pending" /\ res'.rows = {r}
       /\ (res'.op = "decide" /\ res'.arg.up = "ok" /\ CallerIsAdmin(db)'
              /\ RowOf(db, res'.arg.id) # {})
            => /\ res'.status = 200
               /\ \A r \in RowOf(db', res'.arg.id) :
                      IF res'.arg.azione = "approve"
                      THEN r.stato = "approved" /\ r.is_active /\ r.motivo = None
                      ELSE r.stato = "rejected" /\ ~r.is_active
               /\ RowOf(db', res'.arg.id) # {}
       /\ (res'.op = "utenti/me" /\ res'.rows # {})
            => \E r \in RowOf(db, res'.sub) :
                   r.stato = "approved" /\ res'.rows = {r} /\ res'.status = 200
       /\ (res'.op = "utenti/me" /\ res'.arg.up = "ok" /\ CallerKnown')
            => IF \E r \in RowOf(db, AuthUser(res'.header)) : r.stato = "approved"
               THEN res'.status = 200 /\ res'.rows # {}
               ELSE res'.status = 403 /\ res'.rows = {}]_vars

\* C27 witness: user u2 registered, was rejected by the administrator, and
\* GET /utenti/me answered 403
C27_Witness ==
    /\ res.op = "utenti/me" /\ res.sub = "u2" /\ res.status = 403
    /\ \E r \in RowOf(db, "u2") :
           r.stato = "rejected" /\ ~r.is_active /\ r.motivo = "m"

\* C28: a request that finds the bucket of its (client IP, path) with the
\* window open (now not past the stored reset) leaves the bucket with the
\* count one higher and the same reset, and no other bucket changes; this
\* holds for a request the limiter rejects, which always finds an open
\* window: a rejection never moves the reset.  Every stored count is at
\* least 1.
C28_OpenWindowCountsOnly ==
    [][/\ \A k \in DOMAIN buckets :
            (buckets'[k] # buckets[k] /\ now <= buckets[k].reset)
                => /\ k = BucketKey(rlLast'.ip, rlLast'.path)
                   /\ buckets'[k] = [reset |-> buckets[k].reset,
                                     count |-> buckets[k].count + 1]
       /\ (rlLast' # rlLast /\ rlLast'.count > 0)
            => LET k == BucketKey(rlLast'.ip, rlLast'.path)
               IN  (k \in DOMAIN buckets /\ now <= buckets[k].reset)
                       => buckets'[k] = [reset |-> buckets[k].reset,
                                         count |-> buckets[k].count + 1]
       /\ (RaisedLast' /\ buckets' # buckets)
            => LET k == BucketKey(rlLast'.ip, rlLast'.path)
               IN  /\ k \in DOMAIN buckets /\ now <= buckets[k].reset
                   /\ buckets'[k].reset = buckets[k].reset
                   /\ buckets'[k].count = buckets[k].count + 1
       /\ \A k \in DOMAIN buckets' : buckets'[k].count >= 1]_vars

\* C28 witness: a request was rejected at the last second of its window,
\* counted past the limit, and the window still ends when it did
C28_Witness ==
    /\ RaisedLast /\ rlLast.at = rlLast.reset /\ rlLast.at > 0
    /\ rlLast.count = MAX_REQ + 1 /\ rlLast.prev = MAX_REQ
    /\ buckets[BucketKey(rlLast.ip, rlLast.path)]
           = [reset |-> rlLast.reset, count |-> MAX_REQ + 1]

\* C29: create_recensione_locatario adds a row to recensioni_locatari only
\* for a locatario that exists and belongs to the caller.
C29_ReviewsOnlyForOwnLocatari ==
    [][(res'.op = "create_recensione" /\ db'.recensioni # db.recensioni)
          => OwnRow(db, res'.sub, res'.arg.id) # {}]_vars

\* C30: the deletion Logout puts on its response names the cookie Login and
\* Refresh set (same name, domain and path /auth) under every
\* configuration, so the client that held the refresh cookie holds none
\* after the Logout; a Refresh that follows directly, without a token in the
\* body, carries no refresh cookie and is answered 401 (missing token)
\* without a call to the identity provider.
C30_RefreshAfterLogoutIsMissingToken ==
    [][/\ last'.op = "logout"
            => /\ \A c \in last'.cookies, t \in RefreshToks :
                      /\ c.op = "delete" /\ c.path = COOKIE_PATH
                      /\ SameCookie(c, _set_refresh_cookie(cfg, t))
               /\ \A c \in jar' : c.key # REFRESH_COOKIE_NAME
       /\ (/\ last.op = "logout" /\ Truthy(last.cookie)
           /\ last'.op = "refresh" /\ ~Truthy(last'.body))
            => /\ ~Truthy(last'.cookie)
               /\ last'.status = 401 /\ last'.code = 401
               /\ ~last'.called /\ last'.sent = None
               /\ idp' = idp]_vars

\* C30 witness: the provider holds the session a Login opened, its answer
\* reached the client, a Logout emptied the jar, and a Refresh without body
\* token and without cookie was answered 401 with no call
C30_Witness ==
    /\ last.op = "refresh" /\ last.body = None /\ last.cookie = None
    /\ last.status = 401 /\ ~last.called
    /\ idp.current # None /\ ~hist.lost
    /\ jar = {}

\* the responses of the route handlers and of their dependencies: an error
\* status comes with a body whose code is that status
ErrorEnvelope ==
    /\ last.status >= 400 => last.code = last.status
    /\ res.status >= 400 => res.code = res.status

\* C24: every error the application raises reaches the client as a JSON
\* body {code, message} whose code is the HTTP status of the error, whether
\* a handler, a dependency or the rate-limit middleware raised it (the
\* limiter raises 429); an exception nothing catches gives 500.
C24_ErrorEnvelopeEverywhere ==
    /\ ErrorEnvelope
    /\ (last.op = "forgot" /\ last.called /\ last.upstream = 0) => last.status = 500
    /\ RaisedLast => rlLast.status = 429 /\ rlLast.code = 429

====
